---------------------------- MODULE Spec2Model ----------------------------
(***************************************************************************)
(* A model of the album-birthdays pipeline: the archive reader and the     *)
(* aggregator (album_analyzer/parser.py), the release lookup with its      *)
(* process-wide cache and the enricher (album_analyzer/release_date.py),   *)
(* the anniversary calculator (bot/birthdays.py), the export and load of   *)
(* the album list (album_analyzer/exporter.py, models.py), the bot's       *)
(* notification jobs and paging views (bot/main.py, bot/storage.py), and   *)
(* the save dialogs of the desktop window (run_desktop.py).                *)
(*                                                                         *)
(* Representation.                                                         *)
(*  - A Python str is a sequence of one-character strings, so that lower(),*)
(*    strip(), "in" and endswith() are computed character by character.    *)
(*  - A JSON value is a tagged record: JNull, JStr(s), JInt(n), JNum(v),   *)
(*    JObj(f), JArr(items).  Python's None is JNull.                       *)
(*  - A float is modelled bit for bit as an IEEE 754 binary64 value, so    *)
(*    that sums, comparisons and round() give what the floats give.        *)
(*  - A character is the string of that character when it is a printable  *)
(*    ASCII character other than the double quote, the backslash and the  *)
(*    backquote, or one of \t \n \f \r; every other character is the     *)
(*    token of its code point in at least four capital hexadecimal         *)
(*    digits, such as "<U+000B>", "<U+0022>", "<U+00C9>", "<U+1F600>".     *)
(*    The character tables are those of Unicode 14.0.0, which CPython      *)
(*    3.11 carries.                                                        *)
(*  - A datetime.date is the record [y, m, d].                             *)
(***************************************************************************)
EXTENDS Integers, Sequences, FiniteSets, TLC

VARIABLES
    \* ---- aggregate_archives (parser.py) ----
    apc,        \* position of aggregate_archives: paths / zip / list / done / failed
    listFrom,   \* the reader branch the current JSON list belongs to: json / zip
    pathLog,    \* the suffixes of the paths opened so far, in order
    entryLog,   \* the ZIP entries met so far: name, content kind, whether opened
    seen,       \* the list elements read so far, in order, with their path index
    totals,     \* the dict `totals`, in insertion order
    result,     \* the value returned by aggregate_archives
    aerror,     \* the exception that left aggregate_archives, or None
    \* ---- lookup_release and enrich_with_release_dates (release_date.py) ----
    cache,          \* the module-level dict _CACHE
    album_list,     \* enrich_with_release_dates: list(albums); the objects are mutated in place
    input,          \* the albums as they were passed in
    pause_seconds,  \* the pacing interval, in tenths of a second
    index,          \* enumerate(album_list): 1-based position of the current album
    enriched,       \* the list being returned
    epc,            \* position of the enricher: loop / variants / get (waiting for the catalog) / done
    variants,       \* lookup_release: _title_variants(album) of the running call
    vi,             \* lookup_release: position in variants
    best_result,    \* lookup_release: best_result of the running call
    events,         \* external queries and pacing waits, in the order they happened
    calls,          \* the lookup_release calls made so far, each with what it tried
    failed,         \* positions of the albums whose lookup raised a transport error
    \* ---- next_birthday (bot/birthdays.py) ----
    bpc,            \* position of the call: call / done
    b_release,      \* the argument release_date
    b_today,        \* the argument today
    b_next,         \* what the call gave: a date, or the ValueError that left it
    b_years,        \* the _replace_year calls of the call: the year and what it gave
    \* ---- calculate_upcoming_birthdays (bot/birthdays.py) ----
    upc,            \* position of the call: loop / done / raised
    u_albums,       \* the argument albums
    u_today,        \* the argument today
    u_within,       \* the argument within_days
    u_index,        \* 1-based position of the loop in u_albums
    upcoming,       \* the list `upcoming`; at done, the list returned
    \* ---- export_albums and load_albums (exporter.py) ----
    xpc,            \* position: export / load / done / raised
    x_albums,       \* the albums passed to export_albums
    x_file,         \* the JSON document in the output file, or None
    x_loaded,       \* what load_albums returned, or the exception that left it
    \* ---- filter_by_minutes (parser.py) ----
    fpc,            \* position of the call: call / done
    f_albums,       \* the argument albums
    f_minimum,      \* the argument minimum_minutes
    f_result,       \* the list returned
    \* ---- aggregate_archives on one archive and on the same archive twice ----
    tpc,            \* position: once / twice / done
    t_records,      \* the JSON list that the archive holds
    t_once,         \* what aggregate_archives([path]) returned
    t_twice,        \* what aggregate_archives([path, path]) returned
    \* ---- _parse_release_date (release_date.py) ----
    rpc,            \* position of the call: call / done
    r_raw,          \* the argument raw
    r_parsed,       \* what the call gave: a date, None, or the exception that left it
    \* ---- send_daily_notifications (bot/main.py, bot/storage.py) ----
    n_users,        \* the chats that have a user file in bot_data
    n_stored,       \* the albums in the user files of bot_data, each with its chat id
    n_today,        \* date.today() of the runs
    n_file,         \* the content of notifications.json, or None while there is no file
    n_jobs,         \* the two runs: position, the dict `log`, `changed`, place in the loops
    n_sent,         \* the send_message calls that returned, in order
    n_saves,        \* the number of documents that handle_document has saved
    \* ---- _DesktopApi.save_albums_json (run_desktop.py) ----
    spc,            \* position in save_albums_json
    s_platform,     \* sys.platform
    s_dialogs,      \* what each save dialog does when it is opened, and whether the write succeeds
    s_order,        \* prompt_order, the dialogs still to try first
    s_calls,        \* the dialogs opened so far
    s_errors,       \* the list `errors`
    s_written,      \* the destinations that hold the content
    s_result,       \* the dict the call returned
    \* ---- _perform_lookup on one response (album_analyzer/release_date.py) ----
    lpc,            \* position in _perform_lookup
    l_payload,      \* response.json()
    l_result,       \* what the call gave: (best_id, best_date), or the exception that left it
    \* ---- /upcoming and its callbacks (bot/main.py) ----
    p_today,        \* date.today() of the handlers
    p_albums,       \* the albums in the user file of the chat
    p_count,        \* the replies to /upcoming so far; the last one has this message id
    p_views,        \* context.user_data["upcoming_views"]: the items (id, view) of the dict, in insertion order
    p_last,         \* the answer to the update handled last
    p_pending,      \* the view of the /upcoming whose reply is on its way
    \* ---- lookup_release called from the threads of the server (release_date.py, run_desktop.py) ----
    th_cache,       \* the module-level dict _CACHE, shared by the threads
    th_state,       \* for each thread: its position in lookup_release and the locals of its call
    th_calls,       \* the lookup_release calls begun so far, in the order they began
    th_answered     \* for each key, the number of its queries that the catalog has answered

aggVars == <<apc, listFrom, pathLog, entryLog, seen, totals, result, aerror>>

enrichVars == <<cache, album_list, input, pause_seconds, index, enriched, epc,
                variants, vi, best_result, events, calls, failed>>

bdayVars == <<bpc, b_release, b_today, b_next, b_years>>

upcomingVars == <<upc, u_albums, u_today, u_within, u_index, upcoming>>

exportVars == <<xpc, x_albums, x_file, x_loaded>>

filterVars == <<fpc, f_albums, f_minimum, f_result>>

twiceVars == <<tpc, t_records, t_once, t_twice>>

parseVars == <<rpc, r_raw, r_parsed>>

notifyVars == <<n_users, n_stored, n_today, n_file, n_jobs, n_sent, n_saves>>

saveVars == <<spc, s_platform, s_dialogs, s_order, s_calls, s_errors, s_written, s_result>>

lookupVars == <<lpc, l_payload, l_result>>

pagingVars == <<p_today, p_albums, p_count, p_views, p_last, p_pending>>

threadsVars == <<th_cache, th_state, th_calls, th_answered>>

vars == <<aggVars, enrichVars, bdayVars, upcomingVars, exportVars, filterVars, twiceVars, parseVars, notifyVars, saveVars, lookupVars, pagingVars, threadsVars>>

\* what the steps of one part of the program leave alone
notAgg == <<enrichVars, bdayVars, upcomingVars, exportVars, filterVars, twiceVars, parseVars, notifyVars, saveVars, lookupVars, pagingVars, threadsVars>>
notEnrich == <<aggVars, bdayVars, upcomingVars, exportVars, filterVars, twiceVars, parseVars, notifyVars, saveVars, lookupVars, pagingVars, threadsVars>>
notBday == <<aggVars, enrichVars, upcomingVars, exportVars, filterVars, twiceVars, parseVars, notifyVars, saveVars, lookupVars, pagingVars, threadsVars>>
notUpcoming == <<aggVars, enrichVars, bdayVars, exportVars, filterVars, twiceVars, parseVars, notifyVars, saveVars, lookupVars, pagingVars, threadsVars>>
notExport == <<aggVars, enrichVars, bdayVars, upcomingVars, filterVars, twiceVars, parseVars, notifyVars, saveVars, lookupVars, pagingVars, threadsVars>>
notFilter == <<aggVars, enrichVars, bdayVars, upcomingVars, exportVars, twiceVars, parseVars, notifyVars, saveVars, lookupVars, pagingVars, threadsVars>>
notTwice == <<aggVars, enrichVars, bdayVars, upcomingVars, exportVars, filterVars, parseVars, notifyVars, saveVars, lookupVars, pagingVars, threadsVars>>
notParse == <<aggVars, enrichVars, bdayVars, upcomingVars, exportVars, filterVars, twiceVars, notifyVars, saveVars, lookupVars, pagingVars, threadsVars>>
notNotify == <<aggVars, enrichVars, bdayVars, upcomingVars, exportVars, filterVars, twiceVars, parseVars, saveVars, lookupVars, pagingVars, threadsVars>>
notSave == <<aggVars, enrichVars, bdayVars, upcomingVars, exportVars, filterVars, twiceVars, parseVars, notifyVars, lookupVars, pagingVars, threadsVars>>
notLookup == <<aggVars, enrichVars, bdayVars, upcomingVars, exportVars, filterVars, twiceVars, parseVars, notifyVars, saveVars, pagingVars, threadsVars>>
notPaging == <<aggVars, enrichVars, bdayVars, upcomingVars, exportVars, filterVars, twiceVars, parseVars, notifyVars, saveVars, lookupVars, threadsVars>>
notThreads == <<aggVars, enrichVars, bdayVars, upcomingVars, exportVars, filterVars, twiceVars, parseVars, notifyVars, saveVars, lookupVars, pagingVars>>

-----------------------------------------------------------------------------
(* Bounds of the model *)

\* paths, ZIP entries and list elements of one aggregation run, all together
MaxItems == 4
\* list elements of one aggregation run
MaxRecords == 2
\* albums passed to one enrich_with_release_dates call
MaxAlbums == 2
\* albums passed to one calculate_upcoming_birthdays call
MaxUpcoming == 2
\* albums passed to one export_albums call
MaxExported == 2
\* albums passed to one filter_by_minutes call
MaxFiltered == 2
\* elements of the JSON list of the archive that is aggregated once and twice
MaxPlays == 2
\* albums in the user files before a document is saved, all chats together
MaxStored == 2
\* documents that handle_document saves beside the notification jobs
MaxDocuments == 1
\* release groups in one response of the catalog
MaxGroups == 2
\* replies to /upcoming, each of which stores a paging view
MaxMessages == 1
\* lookup_release calls begun by the threads of the server
MaxCalls == 3

-----------------------------------------------------------------------------
(* Python values *)

None == [t |-> "null"]
JNull == None
JStr(s) == [t |-> "str", s |-> s]
JInt(n) == [t |-> "int", n |-> n]
JObj(f) == [t |-> "obj", f |-> f]
JArr(items) == [t |-> "arr", items |-> items]

\* bool(v) for the JSON values of the model: None, an empty str, 0, 0.0, an
\* empty dict and an empty list are false
Truthy(v) ==
    CASE v.t = "null" -> FALSE
      [] v.t = "str" -> v.s # <<>>
      [] v.t = "int" -> v.n # 0
      [] v.t = "num" -> v.v.bits # <<>>
      [] v.t = "obj" -> DOMAIN v.f # {}
      [] v.t = "arr" -> v.items # <<>>

\* a or b
PyOr(a, b) == IF Truthy(a) THEN a ELSE b

\* entry.get(k)
Get(entry, k) == IF k \in DOMAIN entry THEN entry[k] ELSE None

-----------------------------------------------------------------------------
(* The parts of the program that a specification does not run *)

\* the aggregator is not running
AggIdle ==
    /\ apc = "idle" /\ listFrom = "json" /\ pathLog = <<>> /\ entryLog = <<>>
    /\ seen = <<>> /\ totals = <<>> /\ result = <<>> /\ aerror = None

\* the enricher is not running and the cache is empty
EnrichIdle ==
    /\ cache = <<>> /\ album_list = <<>> /\ input = <<>> /\ pause_seconds = 0
    /\ index = 1 /\ enriched = <<>> /\ epc = "done" /\ variants = <<>> /\ vi = 1
    /\ best_result = None /\ events = <<>> /\ calls = <<>> /\ failed = {}

\* next_birthday is not being called
BdayIdle ==
    /\ bpc = "idle" /\ b_release = None /\ b_today = None /\ b_next = None
    /\ b_years = <<>>

\* calculate_upcoming_birthdays is not being called
UpcomingIdle ==
    /\ upc = "idle" /\ u_albums = <<>> /\ u_today = None /\ u_within = 0
    /\ u_index = 1 /\ upcoming = <<>>

\* nothing is exported or loaded
ExportIdle ==
    /\ xpc = "idle" /\ x_albums = <<>> /\ x_file = None /\ x_loaded = <<>>

\* filter_by_minutes is not being called
FilterIdle ==
    /\ fpc = "idle" /\ f_albums = <<>> /\ f_minimum = None /\ f_result = <<>>

\* no archive is aggregated once and twice
TwiceIdle ==
    /\ tpc = "idle" /\ t_records = <<>> /\ t_once = <<>> /\ t_twice = <<>>

\* _parse_release_date is not being called on its own
ParseIdle ==
    /\ rpc = "idle" /\ r_raw = None /\ r_parsed = None

\* no notification job runs
NotifyIdle ==
    /\ n_users = {} /\ n_stored = <<>> /\ n_today = None /\ n_file = None /\ n_jobs = <<>> /\ n_sent = <<>> /\ n_saves = 0

\* no save dialog is asked for
SaveIdle ==
    /\ spc = "idle" /\ s_platform = None /\ s_dialogs = <<>> /\ s_order = <<>>
    /\ s_calls = <<>> /\ s_errors = <<>> /\ s_written = {} /\ s_result = None

\* no single response is looked at
LookupIdle ==
    /\ lpc = "idle" /\ l_payload = None /\ l_result = None

\* no update of the bot is handled
PagingIdle ==
    /\ p_today = None /\ p_albums = <<>> /\ p_count = 0 /\ p_views = <<>> /\ p_last = None /\ p_pending = None

\* no thread of the server calls lookup_release
ThreadsIdle ==
    /\ th_cache = <<>> /\ th_state = <<>> /\ th_calls = <<>> /\ th_answered = <<>>

-----------------------------------------------------------------------------
(* str operations *)

UpperAlpha == <<"A","B","C","D","E","F","G","H","I","J","K","L","M","N","O","P","Q","R","S","T","U","V","W","X","Y","Z">>
LowerAlpha == <<"a","b","c","d","e","f","g","h","i","j","k","l","m","n","o","p","q","r","s","t","u","v","w","x","y","z">>

\* the characters U+0020..U+007E in code point order (three of them as tokens)
Ascii == <<" ","!","<U+0022>","#","$","%","&","'","(",")","*","+",",","-",".","/","0","1","2","3","4","5","6","7","8","9",":",";","<","=",">","?","@","A","B","C","D","E","F","G","H","I","J","K","L","M","N","O","P","Q","R","S","T","U","V","W","X","Y","Z","[","<U+005C>","]","^","_","<U+0060>","a","b","c","d","e","f","g","h","i","j","k","l","m","n","o","p","q","r","s","t","u","v","w","x","y","z","{","|","}","~">>

\* ord(c), for the characters of Ascii
OrdOf == [c \in {Ascii[i] : i \in 1..Len(Ascii)} |-> 31 + (CHOOSE i \in 1..Len(Ascii) : Ascii[i] = c)]

HexDigits == <<"0","1","2","3","4","5","6","7","8","9","A","B","C","D","E","F">>

\* the number that the hexadecimal digits of the string str stand for
RECURSIVE HexNumber(_)
HexNumber(str) ==
    IF str = "" THEN 0
    ELSE 16 * HexNumber(SubSeq(str, 1, Len(str) - 1))
         + (CHOOSE v \in 0..15 : HexDigits[v + 1] = SubSeq(str, Len(str), Len(str)))

\* n in hexadecimal digits, at least width of them
RECURSIVE HexOf(_, _)
HexOf(n, width) ==
    IF n = 0 /\ width <= 0 THEN ""
    ELSE HexOf(n \div 16, width - 1) \o HexDigits[(n % 16) + 1]

\* ord(c): the code point of a character
ord(c) ==
    IF c \in DOMAIN OrdOf THEN OrdOf[c]
    ELSE IF c = "\t" THEN 9
    ELSE IF c = "\n" THEN 10
    ELSE IF c = "\f" THEN 12
    ELSE IF c = "\r" THEN 13
    ELSE HexNumber(SubSeq(c, 4, Len(c) - 1))

\* chr(n): the character of a code point
chr(n) ==
    IF n >= 32 /\ n <= 126 THEN Ascii[n - 31]
    ELSE IF n = 9 THEN "\t"
    ELSE IF n = 10 THEN "\n"
    ELSE IF n = 12 THEN "\f"
    ELSE IF n = 13 THEN "\r"
    ELSE "<U+" \o HexOf(n, 4) \o ">"

\* whether n lies in one of the ranges <<first, last>>
InRanges(n, ranges) ==
    \E i \in 1..Len(ranges) : ranges[i][1] <= n /\ n <= ranges[i][2]

\* the characters str.isspace() holds for: str.strip() removes them and \s
\* matches them
Whitespace ==
    { "\t", "\n", "<U+000B>", "\f", "\r", "<U+001C>", "<U+001D>", "<U+001E>", "<U+001F>", " ",
      "<U+0085>", "<U+00A0>", "<U+1680>", "<U+2000>", "<U+2001>", "<U+2002>", "<U+2003>",
      "<U+2004>", "<U+2005>", "<U+2006>", "<U+2007>", "<U+2008>", "<U+2009>", "<U+200A>",
      "<U+2028>", "<U+2029>", "<U+202F>", "<U+205F>", "<U+3000>" }

LowerOf == [c \in {UpperAlpha[i] : i \in 1..Len(UpperAlpha)} |->
               LowerAlpha[CHOOSE i \in 1..Len(UpperAlpha) : UpperAlpha[i] = c]]

\* what str.lower() changes into one other character: <<first, last, step,
\* shift>> stands for the code points first, first + step, ..., last, each of
\* which becomes the code point shift further on
LowerRuns ==
    << <<\h0041, \h005A, 1, 32>>, <<\h00C0, \h00D6, 1, 32>>, <<\h00D8, \h00DE, 1, 32>>,
       <<\h0100, \h012E, 2, 1>>, <<\h0132, \h0136, 2, 1>>, <<\h0139, \h0147, 2, 1>>,
       <<\h014A, \h0176, 2, 1>>, <<\h0178, \h0178, 1, -121>>, <<\h0179, \h017D, 2, 1>>,
       <<\h0181, \h0181, 1, 210>>, <<\h0182, \h0184, 2, 1>>, <<\h0186, \h0186, 1, 206>>,
       <<\h0187, \h0187, 1, 1>>, <<\h0189, \h018A, 1, 205>>, <<\h018B, \h018B, 1, 1>>,
       <<\h018E, \h018E, 1, 79>>, <<\h018F, \h018F, 1, 202>>, <<\h0190, \h0190, 1, 203>>,
       <<\h0191, \h0191, 1, 1>>, <<\h0193, \h0193, 1, 205>>, <<\h0194, \h0194, 1, 207>>,
       <<\h0196, \h0196, 1, 211>>, <<\h0197, \h0197, 1, 209>>, <<\h0198, \h0198, 1, 1>>,
       <<\h019C, \h019C, 1, 211>>, <<\h019D, \h019D, 1, 213>>, <<\h019F, \h019F, 1, 214>>,
       <<\h01A0, \h01A4, 2, 1>>, <<\h01A6, \h01A6, 1, 218>>, <<\h01A7, \h01A7, 1, 1>>,
       <<\h01A9, \h01A9, 1, 218>>, <<\h01AC, \h01AC, 1, 1>>, <<\h01AE, \h01AE, 1, 218>>,
       <<\h01AF, \h01AF, 1, 1>>, <<\h01B1, \h01B2, 1, 217>>, <<\h01B3, \h01B5, 2, 1>>,
       <<\h01B7, \h01B7, 1, 219>>, <<\h01B8, \h01B8, 1, 1>>, <<\h01BC, \h01BC, 1, 1>>,
       <<\h01C4, \h01C4, 1, 2>>, <<\h01C5, \h01C5, 1, 1>>, <<\h01C7, \h01C7, 1, 2>>,
       <<\h01C8, \h01C8, 1, 1>>, <<\h01CA, \h01CA, 1, 2>>, <<\h01CB, \h01DB, 2, 1>>,
       <<\h01DE, \h01EE, 2, 1>>, <<\h01F1, \h01F1, 1, 2>>, <<\h01F2, \h01F4, 2, 1>>,
       <<\h01F6, \h01F6, 1, -97>>, <<\h01F7, \h01F7, 1, -56>>, <<\h01F8, \h021E, 2, 1>>,
       <<\h0220, \h0220, 1, -130>>, <<\h0222, \h0232, 2, 1>>, <<\h023A, \h023A, 1, 10795>>,
       <<\h023B, \h023B, 1, 1>>, <<\h023D, \h023D, 1, -163>>, <<\h023E, \h023E, 1, 10792>>,
       <<\h0241, \h0241, 1, 1>>, <<\h0243, \h0243, 1, -195>>, <<\h0244, \h0244, 1, 69>>,
       <<\h0245, \h0245, 1, 71>>, <<\h0246, \h024E, 2, 1>>, <<\h0370, \h0372, 2, 1>>,
       <<\h0376, \h0376, 1, 1>>, <<\h037F, \h037F, 1, 116>>, <<\h0386, \h0386, 1, 38>>,
       <<\h0388, \h038A, 1, 37>>, <<\h038C, \h038C, 1, 64>>, <<\h038E, \h038F, 1, 63>>,
       <<\h0391, \h03A1, 1, 32>>, <<\h03A3, \h03AB, 1, 32>>, <<\h03CF, \h03CF, 1, 8>>,
       <<\h03D8, \h03EE, 2, 1>>, <<\h03F4, \h03F4, 1, -60>>, <<\h03F7, \h03F7, 1, 1>>,
       <<\h03F9, \h03F9, 1, -7>>, <<\h03FA, \h03FA, 1, 1>>, <<\h03FD, \h03FF, 1, -130>>,
       <<\h0400, \h040F, 1, 80>>, <<\h0410, \h042F, 1, 32>>, <<\h0460, \h0480, 2, 1>>,
       <<\h048A, \h04BE, 2, 1>>, <<\h04C0, \h04C0, 1, 15>>, <<\h04C1, \h04CD, 2, 1>>,
       <<\h04D0, \h052E, 2, 1>>, <<\h0531, \h0556, 1, 48>>, <<\h10A0, \h10C5, 1, 7264>>,
       <<\h10C7, \h10C7, 1, 7264>>, <<\h10CD, \h10CD, 1, 7264>>, <<\h13A0, \h13EF, 1, 38864>>,
       <<\h13F0, \h13F5, 1, 8>>, <<\h1C90, \h1CBA, 1, -3008>>, <<\h1CBD, \h1CBF, 1, -3008>>,
       <<\h1E00, \h1E94, 2, 1>>, <<\h1E9E, \h1E9E, 1, -7615>>, <<\h1EA0, \h1EFE, 2, 1>>,
       <<\h1F08, \h1F0F, 1, -8>>, <<\h1F18, \h1F1D, 1, -8>>, <<\h1F28, \h1F2F, 1, -8>>,
       <<\h1F38, \h1F3F, 1, -8>>, <<\h1F48, \h1F4D, 1, -8>>, <<\h1F59, \h1F5F, 2, -8>>,
       <<\h1F68, \h1F6F, 1, -8>>, <<\h1F88, \h1F8F, 1, -8>>, <<\h1F98, \h1F9F, 1, -8>>,
       <<\h1FA8, \h1FAF, 1, -8>>, <<\h1FB8, \h1FB9, 1, -8>>, <<\h1FBA, \h1FBB, 1, -74>>,
       <<\h1FBC, \h1FBC, 1, -9>>, <<\h1FC8, \h1FCB, 1, -86>>, <<\h1FCC, \h1FCC, 1, -9>>,
       <<\h1FD8, \h1FD9, 1, -8>>, <<\h1FDA, \h1FDB, 1, -100>>, <<\h1FE8, \h1FE9, 1, -8>>,
       <<\h1FEA, \h1FEB, 1, -112>>, <<\h1FEC, \h1FEC, 1, -7>>, <<\h1FF8, \h1FF9, 1, -128>>,
       <<\h1FFA, \h1FFB, 1, -126>>, <<\h1FFC, \h1FFC, 1, -9>>, <<\h2126, \h2126, 1, -7517>>,
       <<\h212A, \h212A, 1, -8383>>, <<\h212B, \h212B, 1, -8262>>, <<\h2132, \h2132, 1, 28>>,
       <<\h2160, \h216F, 1, 16>>, <<\h2183, \h2183, 1, 1>>, <<\h24B6, \h24CF, 1, 26>>,
       <<\h2C00, \h2C2F, 1, 48>>, <<\h2C60, \h2C60, 1, 1>>, <<\h2C62, \h2C62, 1, -10743>>,
       <<\h2C63, \h2C63, 1, -3814>>, <<\h2C64, \h2C64, 1, -10727>>, <<\h2C67, \h2C6B, 2, 1>>,
       <<\h2C6D, \h2C6D, 1, -10780>>, <<\h2C6E, \h2C6E, 1, -10749>>,
       <<\h2C6F, \h2C6F, 1, -10783>>, <<\h2C70, \h2C70, 1, -10782>>, <<\h2C72, \h2C72, 1, 1>>,
       <<\h2C75, \h2C75, 1, 1>>, <<\h2C7E, \h2C7F, 1, -10815>>, <<\h2C80, \h2CE2, 2, 1>>,
       <<\h2CEB, \h2CED, 2, 1>>, <<\h2CF2, \h2CF2, 1, 1>>, <<\hA640, \hA66C, 2, 1>>,
       <<\hA680, \hA69A, 2, 1>>, <<\hA722, \hA72E, 2, 1>>, <<\hA732, \hA76E, 2, 1>>,
       <<\hA779, \hA77B, 2, 1>>, <<\hA77D, \hA77D, 1, -35332>>, <<\hA77E, \hA786, 2, 1>>,
       <<\hA78B, \hA78B, 1, 1>>, <<\hA78D, \hA78D, 1, -42280>>, <<\hA790, \hA792, 2, 1>>,
       <<\hA796, \hA7A8, 2, 1>>, <<\hA7AA, \hA7AA, 1, -42308>>, <<\hA7AB, \hA7AB, 1, -42319>>,
       <<\hA7AC, \hA7AC, 1, -42315>>, <<\hA7AD, \hA7AD, 1, -42305>>,
       <<\hA7AE, \hA7AE, 1, -42308>>, <<\hA7B0, \hA7B0, 1, -42258>>,
       <<\hA7B1, \hA7B1, 1, -42282>>, <<\hA7B2, \hA7B2, 1, -42261>>, <<\hA7B3, \hA7B3, 1, 928>>,
       <<\hA7B4, \hA7C2, 2, 1>>, <<\hA7C4, \hA7C4, 1, -48>>, <<\hA7C5, \hA7C5, 1, -42307>>,
       <<\hA7C6, \hA7C6, 1, -35384>>, <<\hA7C7, \hA7C9, 2, 1>>, <<\hA7D0, \hA7D0, 1, 1>>,
       <<\hA7D6, \hA7D8, 2, 1>>, <<\hA7F5, \hA7F5, 1, 1>>, <<\hFF21, \hFF3A, 1, 32>>,
       <<\h10400, \h10427, 1, 40>>, <<\h104B0, \h104D3, 1, 40>>, <<\h10570, \h1057A, 1, 39>>,
       <<\h1057C, \h1058A, 1, 39>>, <<\h1058C, \h10592, 1, 39>>, <<\h10594, \h10595, 1, 39>>,
       <<\h10C80, \h10CB2, 1, 64>>, <<\h118A0, \h118BF, 1, 32>>, <<\h16E40, \h16E5F, 1, 32>>,
       <<\h1E900, \h1E921, 1, 34>> >>

\* whether the run holds the code point n
InRun(n, run) == run[1] <= n /\ n <= run[2] /\ (n - run[1]) % run[3] = 0

\* the one character that str.lower() changes into two
DottedCapitalI == "<U+0130>"
CombiningDotAbove == "<U+0307>"

\* c.lower() for the string of the one character c
LowerChar(c) ==
    IF c \in DOMAIN LowerOf THEN <<LowerOf[c]>>
    ELSE IF c \in DOMAIN OrdOf THEN <<c>>
    ELSE IF c = DottedCapitalI THEN <<"i", CombiningDotAbove>>
    ELSE LET n == ord(c)
         IN  IF \E i \in 1..Len(LowerRuns) : InRun(n, LowerRuns[i])
             THEN <<chr(n + LowerRuns[CHOOSE i \in 1..Len(LowerRuns) : InRun(n, LowerRuns[i])][4])>>
             ELSE <<c>>

\* the code points, first to last, of the cased characters that are not
\* case-ignorable
CasedRanges ==
    << <<\h0041, \h005A>>, <<\h0061, \h007A>>, <<\h00AA, \h00AA>>, <<\h00B5, \h00B5>>,
       <<\h00BA, \h00BA>>, <<\h00C0, \h00D6>>, <<\h00D8, \h00F6>>, <<\h00F8, \h01BA>>,
       <<\h01BC, \h01BF>>, <<\h01C4, \h0293>>, <<\h0295, \h02AF>>, <<\h0370, \h0373>>,
       <<\h0376, \h0377>>, <<\h037B, \h037D>>, <<\h037F, \h037F>>, <<\h0386, \h0386>>,
       <<\h0388, \h038A>>, <<\h038C, \h038C>>, <<\h038E, \h03A1>>, <<\h03A3, \h03F5>>,
       <<\h03F7, \h0481>>, <<\h048A, \h052F>>, <<\h0531, \h0556>>, <<\h0560, \h0588>>,
       <<\h10A0, \h10C5>>, <<\h10C7, \h10C7>>, <<\h10CD, \h10CD>>, <<\h10D0, \h10FA>>,
       <<\h10FD, \h10FF>>, <<\h13A0, \h13F5>>, <<\h13F8, \h13FD>>, <<\h1C80, \h1C88>>,
       <<\h1C90, \h1CBA>>, <<\h1CBD, \h1CBF>>, <<\h1D00, \h1D2B>>, <<\h1D6B, \h1D77>>,
       <<\h1D79, \h1D9A>>, <<\h1E00, \h1F15>>, <<\h1F18, \h1F1D>>, <<\h1F20, \h1F45>>,
       <<\h1F48, \h1F4D>>, <<\h1F50, \h1F57>>, <<\h1F59, \h1F59>>, <<\h1F5B, \h1F5B>>,
       <<\h1F5D, \h1F5D>>, <<\h1F5F, \h1F7D>>, <<\h1F80, \h1FB4>>, <<\h1FB6, \h1FBC>>,
       <<\h1FBE, \h1FBE>>, <<\h1FC2, \h1FC4>>, <<\h1FC6, \h1FCC>>, <<\h1FD0, \h1FD3>>,
       <<\h1FD6, \h1FDB>>, <<\h1FE0, \h1FEC>>, <<\h1FF2, \h1FF4>>, <<\h1FF6, \h1FFC>>,
       <<\h2102, \h2102>>, <<\h2107, \h2107>>, <<\h210A, \h2113>>, <<\h2115, \h2115>>,
       <<\h2119, \h211D>>, <<\h2124, \h2124>>, <<\h2126, \h2126>>, <<\h2128, \h2128>>,
       <<\h212A, \h212D>>, <<\h212F, \h2134>>, <<\h2139, \h2139>>, <<\h213C, \h213F>>,
       <<\h2145, \h2149>>, <<\h214E, \h214E>>, <<\h2160, \h217F>>, <<\h2183, \h2184>>,
       <<\h24B6, \h24E9>>, <<\h2C00, \h2C7B>>, <<\h2C7E, \h2CE4>>, <<\h2CEB, \h2CEE>>,
       <<\h2CF2, \h2CF3>>, <<\h2D00, \h2D25>>, <<\h2D27, \h2D27>>, <<\h2D2D, \h2D2D>>,
       <<\hA640, \hA66D>>, <<\hA680, \hA69B>>, <<\hA722, \hA76F>>, <<\hA771, \hA787>>,
       <<\hA78B, \hA78E>>, <<\hA790, \hA7CA>>, <<\hA7D0, \hA7D1>>, <<\hA7D3, \hA7D3>>,
       <<\hA7D5, \hA7D9>>, <<\hA7F5, \hA7F6>>, <<\hA7FA, \hA7FA>>, <<\hAB30, \hAB5A>>,
       <<\hAB60, \hAB68>>, <<\hAB70, \hABBF>>, <<\hFB00, \hFB06>>, <<\hFB13, \hFB17>>,
       <<\hFF21, \hFF3A>>, <<\hFF41, \hFF5A>>, <<\h10400, \h1044F>>, <<\h104B0, \h104D3>>,
       <<\h104D8, \h104FB>>, <<\h10570, \h1057A>>, <<\h1057C, \h1058A>>, <<\h1058C, \h10592>>,
       <<\h10594, \h10595>>, <<\h10597, \h105A1>>, <<\h105A3, \h105B1>>, <<\h105B3, \h105B9>>,
       <<\h105BB, \h105BC>>, <<\h10C80, \h10CB2>>, <<\h10CC0, \h10CF2>>, <<\h118A0, \h118DF>>,
       <<\h16E40, \h16E7F>>, <<\h1D400, \h1D454>>, <<\h1D456, \h1D49C>>, <<\h1D49E, \h1D49F>>,
       <<\h1D4A2, \h1D4A2>>, <<\h1D4A5, \h1D4A6>>, <<\h1D4A9, \h1D4AC>>, <<\h1D4AE, \h1D4B9>>,
       <<\h1D4BB, \h1D4BB>>, <<\h1D4BD, \h1D4C3>>, <<\h1D4C5, \h1D505>>, <<\h1D507, \h1D50A>>,
       <<\h1D50D, \h1D514>>, <<\h1D516, \h1D51C>>, <<\h1D51E, \h1D539>>, <<\h1D53B, \h1D53E>>,
       <<\h1D540, \h1D544>>, <<\h1D546, \h1D546>>, <<\h1D54A, \h1D550>>, <<\h1D552, \h1D6A5>>,
       <<\h1D6A8, \h1D6C0>>, <<\h1D6C2, \h1D6DA>>, <<\h1D6DC, \h1D6FA>>, <<\h1D6FC, \h1D714>>,
       <<\h1D716, \h1D734>>, <<\h1D736, \h1D74E>>, <<\h1D750, \h1D76E>>, <<\h1D770, \h1D788>>,
       <<\h1D78A, \h1D7A8>>, <<\h1D7AA, \h1D7C2>>, <<\h1D7C4, \h1D7CB>>, <<\h1DF00, \h1DF09>>,
       <<\h1DF0B, \h1DF1E>>, <<\h1E900, \h1E943>>, <<\h1F130, \h1F149>>, <<\h1F150, \h1F169>>,
       <<\h1F170, \h1F189>> >>

\* the code points, first to last, of the case-ignorable characters
CaseIgnorableRanges ==
    << <<\h0027, \h0027>>, <<\h002E, \h002E>>, <<\h003A, \h003A>>, <<\h005E, \h005E>>,
       <<\h0060, \h0060>>, <<\h00A8, \h00A8>>, <<\h00AD, \h00AD>>, <<\h00AF, \h00AF>>,
       <<\h00B4, \h00B4>>, <<\h00B7, \h00B8>>, <<\h02B0, \h036F>>, <<\h0374, \h0375>>,
       <<\h037A, \h037A>>, <<\h0384, \h0385>>, <<\h0387, \h0387>>, <<\h0483, \h0489>>,
       <<\h0559, \h0559>>, <<\h055F, \h055F>>, <<\h0591, \h05BD>>, <<\h05BF, \h05BF>>,
       <<\h05C1, \h05C2>>, <<\h05C4, \h05C5>>, <<\h05C7, \h05C7>>, <<\h05F4, \h05F4>>,
       <<\h0600, \h0605>>, <<\h0610, \h061A>>, <<\h061C, \h061C>>, <<\h0640, \h0640>>,
       <<\h064B, \h065F>>, <<\h0670, \h0670>>, <<\h06D6, \h06DD>>, <<\h06DF, \h06E8>>,
       <<\h06EA, \h06ED>>, <<\h070F, \h070F>>, <<\h0711, \h0711>>, <<\h0730, \h074A>>,
       <<\h07A6, \h07B0>>, <<\h07EB, \h07F5>>, <<\h07FA, \h07FA>>, <<\h07FD, \h07FD>>,
       <<\h0816, \h082D>>, <<\h0859, \h085B>>, <<\h0888, \h0888>>, <<\h0890, \h0891>>,
       <<\h0898, \h089F>>, <<\h08C9, \h0902>>, <<\h093A, \h093A>>, <<\h093C, \h093C>>,
       <<\h0941, \h0948>>, <<\h094D, \h094D>>, <<\h0951, \h0957>>, <<\h0962, \h0963>>,
       <<\h0971, \h0971>>, <<\h0981, \h0981>>, <<\h09BC, \h09BC>>, <<\h09C1, \h09C4>>,
       <<\h09CD, \h09CD>>, <<\h09E2, \h09E3>>, <<\h09FE, \h09FE>>, <<\h0A01, \h0A02>>,
       <<\h0A3C, \h0A3C>>, <<\h0A41, \h0A42>>, <<\h0A47, \h0A48>>, <<\h0A4B, \h0A4D>>,
       <<\h0A51, \h0A51>>, <<\h0A70, \h0A71>>, <<\h0A75, \h0A75>>, <<\h0A81, \h0A82>>,
       <<\h0ABC, \h0ABC>>, <<\h0AC1, \h0AC5>>, <<\h0AC7, \h0AC8>>, <<\h0ACD, \h0ACD>>,
       <<\h0AE2, \h0AE3>>, <<\h0AFA, \h0AFF>>, <<\h0B01, \h0B01>>, <<\h0B3C, \h0B3C>>,
       <<\h0B3F, \h0B3F>>, <<\h0B41, \h0B44>>, <<\h0B4D, \h0B4D>>, <<\h0B55, \h0B56>>,
       <<\h0B62, \h0B63>>, <<\h0B82, \h0B82>>, <<\h0BC0, \h0BC0>>, <<\h0BCD, \h0BCD>>,
       <<\h0C00, \h0C00>>, <<\h0C04, \h0C04>>, <<\h0C3C, \h0C3C>>, <<\h0C3E, \h0C40>>,
       <<\h0C46, \h0C48>>, <<\h0C4A, \h0C4D>>, <<\h0C55, \h0C56>>, <<\h0C62, \h0C63>>,
       <<\h0C81, \h0C81>>, <<\h0CBC, \h0CBC>>, <<\h0CBF, \h0CBF>>, <<\h0CC6, \h0CC6>>,
       <<\h0CCC, \h0CCD>>, <<\h0CE2, \h0CE3>>, <<\h0D00, \h0D01>>, <<\h0D3B, \h0D3C>>,
       <<\h0D41, \h0D44>>, <<\h0D4D, \h0D4D>>, <<\h0D62, \h0D63>>, <<\h0D81, \h0D81>>,
       <<\h0DCA, \h0DCA>>, <<\h0DD2, \h0DD4>>, <<\h0DD6, \h0DD6>>, <<\h0E31, \h0E31>>,
       <<\h0E34, \h0E3A>>, <<\h0E46, \h0E4E>>, <<\h0EB1, \h0EB1>>, <<\h0EB4, \h0EBC>>,
       <<\h0EC6, \h0EC6>>, <<\h0EC8, \h0ECD>>, <<\h0F18, \h0F19>>, <<\h0F35, \h0F35>>,
       <<\h0F37, \h0F37>>, <<\h0F39, \h0F39>>, <<\h0F71, \h0F7E>>, <<\h0F80, \h0F84>>,
       <<\h0F86, \h0F87>>, <<\h0F8D, \h0F97>>, <<\h0F99, \h0FBC>>, <<\h0FC6, \h0FC6>>,
       <<\h102D, \h1030>>, <<\h1032, \h1037>>, <<\h1039, \h103A>>, <<\h103D, \h103E>>,
       <<\h1058, \h1059>>, <<\h105E, \h1060>>, <<\h1071, \h1074>>, <<\h1082, \h1082>>,
       <<\h1085, \h1086>>, <<\h108D, \h108D>>, <<\h109D, \h109D>>, <<\h10FC, \h10FC>>,
       <<\h135D, \h135F>>, <<\h1712, \h1714>>, <<\h1732, \h1733>>, <<\h1752, \h1753>>,
       <<\h1772, \h1773>>, <<\h17B4, \h17B5>>, <<\h17B7, \h17BD>>, <<\h17C6, \h17C6>>,
       <<\h17C9, \h17D3>>, <<\h17D7, \h17D7>>, <<\h17DD, \h17DD>>, <<\h180B, \h180F>>,
       <<\h1843, \h1843>>, <<\h1885, \h1886>>, <<\h18A9, \h18A9>>, <<\h1920, \h1922>>,
       <<\h1927, \h1928>>, <<\h1932, \h1932>>, <<\h1939, \h193B>>, <<\h1A17, \h1A18>>,
       <<\h1A1B, \h1A1B>>, <<\h1A56, \h1A56>>, <<\h1A58, \h1A5E>>, <<\h1A60, \h1A60>>,
       <<\h1A62, \h1A62>>, <<\h1A65, \h1A6C>>, <<\h1A73, \h1A7C>>, <<\h1A7F, \h1A7F>>,
       <<\h1AA7, \h1AA7>>, <<\h1AB0, \h1ACE>>, <<\h1B00, \h1B03>>, <<\h1B34, \h1B34>>,
       <<\h1B36, \h1B3A>>, <<\h1B3C, \h1B3C>>, <<\h1B42, \h1B42>>, <<\h1B6B, \h1B73>>,
       <<\h1B80, \h1B81>>, <<\h1BA2, \h1BA5>>, <<\h1BA8, \h1BA9>>, <<\h1BAB, \h1BAD>>,
       <<\h1BE6, \h1BE6>>, <<\h1BE8, \h1BE9>>, <<\h1BED, \h1BED>>, <<\h1BEF, \h1BF1>>,
       <<\h1C2C, \h1C33>>, <<\h1C36, \h1C37>>, <<\h1C78, \h1C7D>>, <<\h1CD0, \h1CD2>>,
       <<\h1CD4, \h1CE0>>, <<\h1CE2, \h1CE8>>, <<\h1CED, \h1CED>>, <<\h1CF4, \h1CF4>>,
       <<\h1CF8, \h1CF9>>, <<\h1D2C, \h1D6A>>, <<\h1D78, \h1D78>>, <<\h1D9B, \h1DFF>>,
       <<\h1FBD, \h1FBD>>, <<\h1FBF, \h1FC1>>, <<\h1FCD, \h1FCF>>, <<\h1FDD, \h1FDF>>,
       <<\h1FED, \h1FEF>>, <<\h1FFD, \h1FFE>>, <<\h200B, \h200F>>, <<\h2018, \h2019>>,
       <<\h2024, \h2024>>, <<\h2027, \h2027>>, <<\h202A, \h202E>>, <<\h2060, \h2064>>,
       <<\h2066, \h206F>>, <<\h2071, \h2071>>, <<\h207F, \h207F>>, <<\h2090, \h209C>>,
       <<\h20D0, \h20F0>>, <<\h2C7C, \h2C7D>>, <<\h2CEF, \h2CF1>>, <<\h2D6F, \h2D6F>>,
       <<\h2D7F, \h2D7F>>, <<\h2DE0, \h2DFF>>, <<\h2E2F, \h2E2F>>, <<\h3005, \h3005>>,
       <<\h302A, \h302D>>, <<\h3031, \h3035>>, <<\h303B, \h303B>>, <<\h3099, \h309E>>,
       <<\h30FC, \h30FE>>, <<\hA015, \hA015>>, <<\hA4F8, \hA4FD>>, <<\hA60C, \hA60C>>,
       <<\hA66F, \hA672>>, <<\hA674, \hA67D>>, <<\hA67F, \hA67F>>, <<\hA69C, \hA69F>>,
       <<\hA6F0, \hA6F1>>, <<\hA700, \hA721>>, <<\hA770, \hA770>>, <<\hA788, \hA78A>>,
       <<\hA7F2, \hA7F4>>, <<\hA7F8, \hA7F9>>, <<\hA802, \hA802>>, <<\hA806, \hA806>>,
       <<\hA80B, \hA80B>>, <<\hA825, \hA826>>, <<\hA82C, \hA82C>>, <<\hA8C4, \hA8C5>>,
       <<\hA8E0, \hA8F1>>, <<\hA8FF, \hA8FF>>, <<\hA926, \hA92D>>, <<\hA947, \hA951>>,
       <<\hA980, \hA982>>, <<\hA9B3, \hA9B3>>, <<\hA9B6, \hA9B9>>, <<\hA9BC, \hA9BD>>,
       <<\hA9CF, \hA9CF>>, <<\hA9E5, \hA9E6>>, <<\hAA29, \hAA2E>>, <<\hAA31, \hAA32>>,
       <<\hAA35, \hAA36>>, <<\hAA43, \hAA43>>, <<\hAA4C, \hAA4C>>, <<\hAA70, \hAA70>>,
       <<\hAA7C, \hAA7C>>, <<\hAAB0, \hAAB0>>, <<\hAAB2, \hAAB4>>, <<\hAAB7, \hAAB8>>,
       <<\hAABE, \hAABF>>, <<\hAAC1, \hAAC1>>, <<\hAADD, \hAADD>>, <<\hAAEC, \hAAED>>,
       <<\hAAF3, \hAAF4>>, <<\hAAF6, \hAAF6>>, <<\hAB5B, \hAB5F>>, <<\hAB69, \hAB6B>>,
       <<\hABE5, \hABE5>>, <<\hABE8, \hABE8>>, <<\hABED, \hABED>>, <<\hFB1E, \hFB1E>>,
       <<\hFBB2, \hFBC2>>, <<\hFE00, \hFE0F>>, <<\hFE13, \hFE13>>, <<\hFE20, \hFE2F>>,
       <<\hFE52, \hFE52>>, <<\hFE55, \hFE55>>, <<\hFEFF, \hFEFF>>, <<\hFF07, \hFF07>>,
       <<\hFF0E, \hFF0E>>, <<\hFF1A, \hFF1A>>, <<\hFF3E, \hFF3E>>, <<\hFF40, \hFF40>>,
       <<\hFF70, \hFF70>>, <<\hFF9E, \hFF9F>>, <<\hFFE3, \hFFE3>>, <<\hFFF9, \hFFFB>>,
       <<\h101FD, \h101FD>>, <<\h102E0, \h102E0>>, <<\h10376, \h1037A>>, <<\h10780, \h10785>>,
       <<\h10787, \h107B0>>, <<\h107B2, \h107BA>>, <<\h10A01, \h10A03>>, <<\h10A05, \h10A06>>,
       <<\h10A0C, \h10A0F>>, <<\h10A38, \h10A3A>>, <<\h10A3F, \h10A3F>>, <<\h10AE5, \h10AE6>>,
       <<\h10D24, \h10D27>>, <<\h10EAB, \h10EAC>>, <<\h10F46, \h10F50>>, <<\h10F82, \h10F85>>,
       <<\h11001, \h11001>>, <<\h11038, \h11046>>, <<\h11070, \h11070>>, <<\h11073, \h11074>>,
       <<\h1107F, \h11081>>, <<\h110B3, \h110B6>>, <<\h110B9, \h110BA>>, <<\h110BD, \h110BD>>,
       <<\h110C2, \h110C2>>, <<\h110CD, \h110CD>>, <<\h11100, \h11102>>, <<\h11127, \h1112B>>,
       <<\h1112D, \h11134>>, <<\h11173, \h11173>>, <<\h11180, \h11181>>, <<\h111B6, \h111BE>>,
       <<\h111C9, \h111CC>>, <<\h111CF, \h111CF>>, <<\h1122F, \h11231>>, <<\h11234, \h11234>>,
       <<\h11236, \h11237>>, <<\h1123E, \h1123E>>, <<\h112DF, \h112DF>>, <<\h112E3, \h112EA>>,
       <<\h11300, \h11301>>, <<\h1133B, \h1133C>>, <<\h11340, \h11340>>, <<\h11366, \h1136C>>,
       <<\h11370, \h11374>>, <<\h11438, \h1143F>>, <<\h11442, \h11444>>, <<\h11446, \h11446>>,
       <<\h1145E, \h1145E>>, <<\h114B3, \h114B8>>, <<\h114BA, \h114BA>>, <<\h114BF, \h114C0>>,
       <<\h114C2, \h114C3>>, <<\h115B2, \h115B5>>, <<\h115BC, \h115BD>>, <<\h115BF, \h115C0>>,
       <<\h115DC, \h115DD>>, <<\h11633, \h1163A>>, <<\h1163D, \h1163D>>, <<\h1163F, \h11640>>,
       <<\h116AB, \h116AB>>, <<\h116AD, \h116AD>>, <<\h116B0, \h116B5>>, <<\h116B7, \h116B7>>,
       <<\h1171D, \h1171F>>, <<\h11722, \h11725>>, <<\h11727, \h1172B>>, <<\h1182F, \h11837>>,
       <<\h11839, \h1183A>>, <<\h1193B, \h1193C>>, <<\h1193E, \h1193E>>, <<\h11943, \h11943>>,
       <<\h119D4, \h119D7>>, <<\h119DA, \h119DB>>, <<\h119E0, \h119E0>>, <<\h11A01, \h11A0A>>,
       <<\h11A33, \h11A38>>, <<\h11A3B, \h11A3E>>, <<\h11A47, \h11A47>>, <<\h11A51, \h11A56>>,
       <<\h11A59, \h11A5B>>, <<\h11A8A, \h11A96>>, <<\h11A98, \h11A99>>, <<\h11C30, \h11C36>>,
       <<\h11C38, \h11C3D>>, <<\h11C3F, \h11C3F>>, <<\h11C92, \h11CA7>>, <<\h11CAA, \h11CB0>>,
       <<\h11CB2, \h11CB3>>, <<\h11CB5, \h11CB6>>, <<\h11D31, \h11D36>>, <<\h11D3A, \h11D3A>>,
       <<\h11D3C, \h11D3D>>, <<\h11D3F, \h11D45>>, <<\h11D47, \h11D47>>, <<\h11D90, \h11D91>>,
       <<\h11D95, \h11D95>>, <<\h11D97, \h11D97>>, <<\h11EF3, \h11EF4>>, <<\h13430, \h13438>>,
       <<\h16AF0, \h16AF4>>, <<\h16B30, \h16B36>>, <<\h16B40, \h16B43>>, <<\h16F4F, \h16F4F>>,
       <<\h16F8F, \h16F9F>>, <<\h16FE0, \h16FE1>>, <<\h16FE3, \h16FE4>>, <<\h1AFF0, \h1AFF3>>,
       <<\h1AFF5, \h1AFFB>>, <<\h1AFFD, \h1AFFE>>, <<\h1BC9D, \h1BC9E>>, <<\h1BCA0, \h1BCA3>>,
       <<\h1CF00, \h1CF2D>>, <<\h1CF30, \h1CF46>>, <<\h1D167, \h1D169>>, <<\h1D173, \h1D182>>,
       <<\h1D185, \h1D18B>>, <<\h1D1AA, \h1D1AD>>, <<\h1D242, \h1D244>>, <<\h1DA00, \h1DA36>>,
       <<\h1DA3B, \h1DA6C>>, <<\h1DA75, \h1DA75>>, <<\h1DA84, \h1DA84>>, <<\h1DA9B, \h1DA9F>>,
       <<\h1DAA1, \h1DAAF>>, <<\h1E000, \h1E006>>, <<\h1E008, \h1E018>>, <<\h1E01B, \h1E021>>,
       <<\h1E023, \h1E024>>, <<\h1E026, \h1E02A>>, <<\h1E130, \h1E13D>>, <<\h1E2AE, \h1E2AE>>,
       <<\h1E2EC, \h1E2EF>>, <<\h1E8D0, \h1E8D6>>, <<\h1E944, \h1E94B>>, <<\h1F3FB, \h1F3FF>>,
       <<\hE0001, \hE0001>>, <<\hE0020, \hE007F>>, <<\hE0100, \hE01EF>> >>

CapitalSigma == "<U+03A3>"
SmallSigma == "<U+03C3>"
SmallFinalSigma == "<U+03C2>"

\* whether the nearest character at or before s[j] that is not case-ignorable
\* is a cased one
RECURSIVE CasedBefore(_, _)
CasedBefore(s, j) ==
    IF j < 1 THEN FALSE
    ELSE IF InRanges(ord(s[j]), CaseIgnorableRanges) THEN CasedBefore(s, j - 1)
    ELSE InRanges(ord(s[j]), CasedRanges)

\* the same at or after s[j]
RECURSIVE CasedAfter(_, _)
CasedAfter(s, j) ==
    IF j > Len(s) THEN FALSE
    ELSE IF InRanges(ord(s[j]), CaseIgnorableRanges) THEN CasedAfter(s, j + 1)
    ELSE InRanges(ord(s[j]), CasedRanges)

\* what s[i] becomes in s.lower(): a capital sigma that ends a word becomes
\* the final sigma
LowerAt(s, i) ==
    IF s[i] = CapitalSigma
    THEN <<IF CasedBefore(s, i - 1) /\ ~CasedAfter(s, i + 1) THEN SmallFinalSigma ELSE SmallSigma>>
    ELSE LowerChar(s[i])

RECURSIVE LowerFrom(_, _)
LowerFrom(s, i) == IF i > Len(s) THEN <<>> ELSE LowerAt(s, i) \o LowerFrom(s, i + 1)

\* s.lower()
StrLower(s) ==
    IF \A i \in 1..Len(s) : s[i] \notin {CapitalSigma, DottedCapitalI}
    THEN [i \in 1..Len(s) |-> LowerChar(s[i])[1]]
    ELSE LowerFrom(s, 1)

\* s.endswith(suffix)
EndsWith(s, suffix) ==
    /\ Len(suffix) <= Len(s)
    /\ \A k \in 1..Len(suffix) : s[Len(s) - Len(suffix) + k] = suffix[k]

\* sub in s
Contains(s, sub) ==
    \E i \in 1..(Len(s) - Len(sub) + 1) : \A k \in 1..Len(sub) : s[i + k - 1] = sub[k]

\* s.strip(chars)
StripChars(s, chars) ==
    LET first == CHOOSE i \in 1..Len(s) :
                     s[i] \notin chars /\ \A j \in 1..(i - 1) : s[j] \in chars
        last == CHOOSE i \in 1..Len(s) :
                    s[i] \notin chars /\ \A j \in (i + 1)..Len(s) : s[j] \in chars
    IN  IF \A i \in 1..Len(s) : s[i] \in chars THEN <<>> ELSE SubSeq(s, first, last)

\* s.strip()
Strip(s) == StripChars(s, Whitespace)

-----------------------------------------------------------------------------
(* Numbers.  A Python float is an IEEE 754 binary64 value, rounded half to    *)
(* even: [neg, bits, exp] stands for (-1)^neg * bits * 2^exp, where bits      *)
(* is the significand in binary, most significant digit first, without        *)
(* leading and trailing zeros and of at most Precision digits; 0.0 has no     *)
(* bits.  Every float has one representation, so = is ==.                     *)

Abs(x) == IF x < 0 THEN -x ELSE x

\* F(value), with the value worked out once however often F uses it
With(value, F(_)) == CHOOSE r \in {F(v) : v \in {value}} : TRUE

Precision == 53


DZero == [neg |-> FALSE, bits |-> <<>>, exp |-> 0]

Zeros(n) == [k \in 1..n |-> 0]

\* the number of binary digits of a natural number below 2^31
BitLen(n) ==
    IF n = 0 THEN 0
    ELSE CHOOSE len \in 1..31 : n >= 2^(len - 1) /\ (len = 31 \/ n < 2^len)

\* the binary digits of a natural number, most significant first
BitsOfNat(n) == <<>> \o [k \in 1..BitLen(n) |-> (n \div 2^(BitLen(n) - k)) % 2]

\* the natural number that binary digits stand for
RECURSIVE NatOfBits(_)
NatOfBits(bits) ==
    IF bits = <<>> THEN 0
    ELSE 2 * NatOfBits(SubSeq(bits, 1, Len(bits) - 1)) + bits[Len(bits)]

\* a + b for two bit strings of the same length; one bit longer on a carry
AddBits(a, b) ==
    LET n == Len(a)
        \* a carry reaches digit k when the nearest digit to its right in which
        \* a and b agree is 1 in both
        carry(k) == IF \E j \in (k + 1)..n :
                           a[j] = 1 /\ b[j] = 1 /\ \A m \in (k + 1)..(j - 1) : a[m] # b[m]
                    THEN 1 ELSE 0
        sum == [k \in 1..n |-> (a[k] + b[k] + carry(k)) % 2]
    IN  IF carry(0) = 1 THEN <<1>> \o sum ELSE sum

\* the position of the last 1 in bits, 0 when there is none
LastOne(bits) ==
    IF \E k \in 1..Len(bits) : bits[k] = 1
    THEN CHOOSE k \in 1..Len(bits) : bits[k] = 1 /\ \A j \in (k + 1)..Len(bits) : bits[j] = 0
    ELSE 0

\* the float bits * 2^exp, for bits that start with 1 and are no longer than a
\* significand
Canonical(bits, exp) ==
    [neg |-> FALSE, bits |-> SubSeq(bits, 1, LastOne(bits)), exp |-> exp + (Len(bits) - LastOne(bits))]

\* the float nearest to an exact value: bits (no leading zero, not empty) whose
\* last bit weighs 2^exp, plus something below the last bit iff sticky; a tie
\* goes to the even significand
RoundToDouble(bits, exp, sticky) ==
    LET n == Len(bits) IN
    IF n <= Precision
    THEN Canonical(bits, exp)
    ELSE LET kept == SubSeq(bits, 1, Precision)
             half == bits[Precision + 1] = 1
             below == sticky \/ \E k \in (Precision + 2)..n : bits[k] = 1
             up == half /\ (below \/ kept[Precision] = 1)
             next == IF up THEN AddBits(kept, Zeros(Precision - 1) \o <<1>>) ELSE kept
         IN  Canonical(next, exp + (n - Precision))

\* the digits of r / d after those in bits (r < d < 2^29), until the division
\* ends or bits holds more digits than a significand; frac counts the digits
\* after the binary point.  Each step takes as many digits as keep r * 2^step
\* below 2^30.
RECURSIVE LongDivision(_, _, _, _)
LongDivision(r, d, bits, frac) ==
    IF r = 0 \/ Len(bits) > Precision THEN [bits |-> bits, frac |-> frac, rem |-> r]
    ELSE LET step == 30 - BitLen(d)
             q == (r * 2^step) \div d
             digits == Zeros(step - BitLen(q)) \o BitsOfNat(q)
         IN  LongDivision((r * 2^step) % d, d,
                          IF bits = <<>> THEN BitsOfNat(q) ELSE bits \o digits, frac + step)

\* float(n) / float(d) for integers n and d > 0: the quotient, rounded once
DoubleOf(n, d) ==
    IF n = 0 THEN DZero
    ELSE LET digits == LongDivision(Abs(n) % d, d, BitsOfNat(Abs(n) \div d), 0)
         IN  [RoundToDouble(digits.bits, -digits.frac, digits.rem # 0) EXCEPT !.neg = n < 0]

\* x + y for floats that are not negative
DoubleAdd(x, y) ==
    IF x = DZero THEN y
    ELSE IF y = DZero THEN x
    ELSE LET hi == IF x.exp >= y.exp THEN x ELSE y
             lo == IF x.exp >= y.exp THEN y ELSE x
             shifted == hi.bits \o Zeros(hi.exp - lo.exp)
             n == IF Len(shifted) >= Len(lo.bits) THEN Len(shifted) ELSE Len(lo.bits)
         IN  RoundToDouble(AddBits(Zeros(n - Len(shifted)) \o shifted,
                                   Zeros(n - Len(lo.bits)) \o lo.bits),
                           lo.exp, FALSE)

\* |x| < |y| for floats that are not 0.0: the one whose first digit weighs
\* less, or the one with the smaller digits
SmallerSize(x, y) ==
    LET n == IF Len(x.bits) >= Len(y.bits) THEN Len(x.bits) ELSE Len(y.bits)
        a == x.bits \o Zeros(n - Len(x.bits))
        b == y.bits \o Zeros(n - Len(y.bits))
    IN  \/ x.exp + Len(x.bits) < y.exp + Len(y.bits)
        \/ /\ x.exp + Len(x.bits) = y.exp + Len(y.bits)
           /\ \E k \in 1..n : a[k] < b[k] /\ \A j \in 1..(k - 1) : a[j] = b[j]

\* x < y
DoubleLt(x, y) ==
    IF x = DZero THEN y # DZero /\ ~y.neg
    ELSE IF y = DZero THEN x.neg
    ELSE IF x.neg # y.neg THEN x.neg
    ELSE IF x.neg THEN SmallerSize(y, x)
    ELSE SmallerSize(x, y)

\* x <= y
DoubleLe(x, y) == ~DoubleLt(y, x)

\* 2 * x
DoubleTwice(x) == IF x = DZero THEN x ELSE [x EXCEPT !.exp = @ + 1]

-----------------------------------------------------------------------------
(* Inputs of the archive reader: suffixes, ZIP entry names, list elements *)

SufJson == <<".","j","s","o","n">>
SufZip == <<".","z","i","p">>
SufZipUpper == <<".","Z","I","P">>
SufTxt == <<".","t","x","t">>
PathSuffixes == {SufJson, SufZip, SufZipUpper, SufTxt}

\* "Spotify Extended Streaming History/Streaming_History_Audio_2024.json"
NameAudio2024 == <<"S","p","o","t","i","f","y"," ","E","x","t","e","n","d","e","d"," ","S","t","r","e","a","m","i","n","g"," ","H","i","s","t","o","r","y","/","S","t","r","e","a","m","i","n","g","_","H","i","s","t","o","r","y","_","A","u","d","i","o","_","2","0","2","4",".","j","s","o","n">>
\* "MyData/StreamingHistory0.json"
NameHistory0 == <<"M","y","D","a","t","a","/","S","t","r","e","a","m","i","n","g","H","i","s","t","o","r","y","0",".","j","s","o","n">>
\* "MyData/endsong_0.json"
NameEndsong0 == <<"M","y","D","a","t","a","/","e","n","d","s","o","n","g","_","0",".","j","s","o","n">>
\* "MyData/EndSong_1.JSON"
NameEndSong1 == <<"M","y","D","a","t","a","/","E","n","d","S","o","n","g","_","1",".","J","S","O","N">>
\* "MyData/Read_Me.json"
NameReadMe == <<"M","y","D","a","t","a","/","R","e","a","d","_","M","e",".","j","s","o","n">>
\* "endsong_2.txt"
NameEndsongTxt == <<"e","n","d","s","o","n","g","_","2",".","t","x","t">>
EntryNames == {NameAudio2024, NameHistory0, NameEndsong0, NameEndSong1, NameReadMe, NameEndsongTxt}

\* what json.load finds in a file: a list, another JSON value, text that is no
\* JSON, or bytes that are no UTF-8 text
ContentKinds == {"list", "nonlist", "bad", "undecodable"}

StrAlbum == <<"A","l","b","u","m">>
StrAlbumPadded == <<" ","A","l","b","u","m"," ">>
StrArtist == <<"A","r","t","i","s","t">>
StrArtistPadded == <<"A","r","t","i","s","t"," ">>
StrOther == <<"O","t","h","e","r">>
StrBlank == <<" ">>
StrTrackOne == <<"T","r","a","c","k"," ","O","n","e">>
StrTrackTwo == <<"T","r","a","c","k"," ","T","w","o">>

\* the record of the extended export schema of tests/test_parser.py:27-32
RecExtended == JObj([master_metadata_album_album_name |-> JStr(StrAlbum),
                     master_metadata_album_artist_name |-> JStr(StrArtist),
                     master_metadata_track_name |-> JStr(StrTrackOne),
                     ms_played |-> JInt(600000)])
\* the record of the legacy export schema of tests/test_parser.py:33-38
RecLegacy == JObj([albumName |-> JStr(StrAlbum), artistName |-> JStr(StrArtist),
                   trackName |-> JStr(StrTrackTwo), msPlayed |-> JInt(120000)])
\* an extended record without album metadata (a podcast episode)
RecNoAlbum == JObj([master_metadata_album_album_name |-> JNull,
                    master_metadata_album_artist_name |-> JNull,
                    master_metadata_track_name |-> JNull,
                    ms_played |-> JInt(60000)])
RecZeroPlay == JObj([master_metadata_album_album_name |-> JStr(StrAlbum),
                     master_metadata_album_artist_name |-> JStr(StrArtist),
                     master_metadata_track_name |-> JStr(StrTrackOne),
                     ms_played |-> JInt(0)])
RecNegative == JObj([album |-> JStr(StrOther), artist |-> JStr(StrArtist),
                     track |-> JStr(StrTrackOne), ms_played |-> JInt(-60000)])
RecPadded == JObj([albumName |-> JStr(StrAlbumPadded), artistName |-> JStr(StrArtistPadded),
                   trackName |-> JStr(<<>>), msPlayed |-> JInt(90000)])
RecOther == JObj([release_name |-> JStr(StrOther), artist |-> JStr(StrArtist),
                  ms_played |-> JInt(120000)])
RecEmptyArtist == JObj([albumName |-> JStr(StrAlbum), artistName |-> JStr(<<>>),
                        trackName |-> JStr(StrTrackTwo), msPlayed |-> JInt(60000)])
\* every first choice is falsy, every fallback is set
RecFallbacks == JObj([master_metadata_album_album_name |-> JStr(<<>>), album |-> JStr(StrOther),
                      master_metadata_album_artist_name |-> JNull, artist |-> JStr(StrArtist),
                      master_metadata_track_name |-> JNull, track |-> JStr(StrTrackTwo),
                      ms_played |-> JInt(0), msPlayed |-> JInt(60000)])
RecBlankAlbum == JObj([album |-> JStr(StrBlank), artist |-> JStr(StrArtist),
                       track |-> JStr(StrTrackOne), ms_played |-> JInt(60000)])
RecNoDuration == JObj([albumName |-> JStr(StrAlbum), artistName |-> JStr(StrArtist),
                       trackName |-> JStr(StrTrackOne)])

\* the elements a JSON list of the input may hold; a list is not a mapping
Elements == {RecExtended, RecLegacy, RecNoAlbum, RecZeroPlay, RecNegative, RecPadded,
             RecOther, RecEmptyArtist, RecFallbacks, RecBlankAlbum, RecNoDuration,
             JArr(<<>>)}

-----------------------------------------------------------------------------
(* album_analyzer/parser.py *)

\* how much of the input the run has consumed
Items == Len(pathLog) + Len(entryLog) + Len(seen)

SUPPORTED_JSON_SUFFIXES ==
    << <<"e","n","d","s","o","n","g","_">>,
       <<"S","t","r","e","a","m","i","n","g","_","H","i","s","t","o","r","y","_","A","u","d","i","o">>,
       <<"S","t","r","e","a","m","i","n","g","H","i","s","t","o","r","y">> >>

MsPerMinute == 60000

\* parser.py:36-40: the test that lets a ZIP entry through to json.load
EntrySelected(name) ==
    LET lowered == StrLower(name)
    IN  /\ EndsWith(lowered, SufJson)
        /\ \E i \in 1..Len(SUPPORTED_JSON_SUFFIXES) :
              Contains(lowered, SUPPORTED_JSON_SUFFIXES[i])

\* EntrySelected over the entry names of the model, computed once
SelectedNames == {n \in EntryNames : EntrySelected(n)}

\* isinstance(entry, dict)
IsDict(e) == e.t = "obj"

\* the quotients of the durations that the records of this model carry,
\* divided once
KnownQuotients ==
    [ms \in {-60000, 0, 11267, 60000, 90000, 120000, 151930, 600000} |->
        DoubleOf(ms, MsPerMinute)]

\* parser.py:81: float(ms_played or 0) / 60000.0, for a duration that is an int
MinutesOf(ms) ==
    LET v == PyOr(ms, JInt(0))
    IN  IF v.n \in DOMAIN KnownQuotients THEN KnownQuotients[v.n]
        ELSE DoubleOf(v.n, MsPerMinute)

_extract_album_entry(entry) ==
    LET album == PyOr(Get(entry, "master_metadata_album_album_name"),
                 PyOr(Get(entry, "albumName"),
                 PyOr(Get(entry, "album"), Get(entry, "release_name"))))
        artist == PyOr(Get(entry, "master_metadata_album_artist_name"),
                  PyOr(Get(entry, "artistName"), Get(entry, "artist")))
        track == PyOr(Get(entry, "master_metadata_track_name"),
                 PyOr(Get(entry, "trackName"), Get(entry, "track")))
        ms_played == PyOr(Get(entry, "ms_played"),
                     PyOr(Get(entry, "msPlayed"),
                     PyOr(Get(entry, "ms_played"), Get(entry, "ms_played"))))
    IN  [album |-> album, artist |-> artist, track |-> track,
         minutes |-> MinutesOf(ms_played)]

\* AlbumListening(album=key[0], artist=key[1], minutes=0.0)  (models.py:8-17)
AlbumListening(album, artist, minutes) ==
    [album |-> album, artist |-> artist, minutes |-> minutes,
     release_date |-> None, musicbrainz_id |-> None, tracks |-> {}]

\* the position of key in the dict, 0 when key not in totals
KeyIndex(tot, key) ==
    IF \E i \in 1..Len(tot) : <<tot[i].album, tot[i].artist>> = key
    THEN CHOOSE i \in 1..Len(tot) : <<tot[i].album, tot[i].artist>> = key
    ELSE 0

\* Skipped with the duration test weakened to minutes < 0
SkippedAllowingZero(ex) == ~Truthy(ex.album) \/ ~Truthy(ex.artist) \/ DoubleLt(ex.minutes, DZero)

\* parser.py:91: the records the aggregator leaves out
Skipped(ex) == ~Truthy(ex.album) \/ ~Truthy(ex.artist) \/ DoubleLe(ex.minutes, DZero)

\* Accumulate with the key taken from the raw, untrimmed strings
AccumulateUntrimmed(tot, entry) ==
    LET ex == _extract_album_entry(entry)
        key == <<ex.album.s, ex.artist.s>>
        created == IF KeyIndex(tot, key) = 0
                   THEN Append(tot, AlbumListening(key[1], key[2], DZero))
                   ELSE tot
        k == KeyIndex(created, key)
        added == [created EXCEPT ![k].minutes = DoubleAdd(@, ex.minutes)]
    IN  IF Skipped(ex) THEN tot
        ELSE IF Truthy(ex.track)
             THEN [added EXCEPT ![k].tracks = @ \cup {ex.track.s}]
             ELSE added

\* Accumulate replacing the minutes of the entry instead of adding
AccumulateReplacing(tot, entry) ==
    LET ex == _extract_album_entry(entry)
        key == <<Strip(ex.album.s), Strip(ex.artist.s)>>
        created == IF KeyIndex(tot, key) = 0
                   THEN Append(tot, AlbumListening(key[1], key[2], DZero))
                   ELSE tot
        k == KeyIndex(created, key)
        added == [created EXCEPT ![k].minutes = ex.minutes]
    IN  IF Skipped(ex) THEN tot
        ELSE IF Truthy(ex.track)
             THEN [added EXCEPT ![k].tracks = @ \cup {ex.track.s}]
             ELSE added

\* parser.py:90-98: the body of the loop for one record; += is the float sum
Accumulate(tot, entry) ==
    LET ex == _extract_album_entry(entry)
        key == <<Strip(ex.album.s), Strip(ex.artist.s)>>
        created == IF KeyIndex(tot, key) = 0
                   THEN Append(tot, AlbumListening(key[1], key[2], DZero))
                   ELSE tot
        k == KeyIndex(created, key)
        added == [created EXCEPT ![k].minutes = DoubleAdd(@, ex.minutes)]
    IN  IF Skipped(ex) THEN tot
        ELSE IF Truthy(ex.track)
             THEN [added EXCEPT ![k].tracks = @ \cup {ex.track.s}]
             ELSE added

\* InsertByMinutes putting an item ahead of the items with equal minutes
RECURSIVE InsertByMinutesAhead(_, _)
InsertByMinutesAhead(sorted, item) ==
    IF sorted = <<>> THEN <<item>>
    ELSE IF DoubleLe(Head(sorted).minutes, item.minutes) THEN <<item>> \o sorted
    ELSE <<Head(sorted)>> \o InsertByMinutesAhead(Tail(sorted), item)

\* sorted(..., key=lambda item: item.minutes, reverse=True): stable, so items
\* with equal minutes keep their order
RECURSIVE InsertByMinutes(_, _)
InsertByMinutes(sorted, item) ==
    IF sorted = <<>> THEN <<item>>
    ELSE IF DoubleLt(Head(sorted).minutes, item.minutes) THEN <<item>> \o sorted
    ELSE <<Head(sorted)>> \o InsertByMinutes(Tail(sorted), item)

RECURSIVE SortedByMinutes(_)
SortedByMinutes(items) ==
    IF items = <<>> THEN <<>>
    ELSE InsertByMinutes(SortedByMinutes(SubSeq(items, 1, Len(items) - 1)),
                         items[Len(items)])

AggStart ==
    /\ apc = "paths"
    /\ listFrom = "json"
    /\ pathLog = <<>>
    /\ entryLog = <<>>
    /\ seen = <<>>
    /\ totals = <<>>
    /\ result = <<>>
    /\ aerror = None

\* OpenPath passing over a path whose suffix is not supported
OpenPathSkipping(suffix, kind) ==
    /\ apc = "paths"
    /\ Items < MaxItems
    /\ pathLog' = Append(pathLog, suffix)
    /\ IF StrLower(suffix) = SufJson
       THEN CASE kind = "list" ->
                   /\ apc' = "list" /\ listFrom' = "json" /\ aerror' = aerror
              [] kind = "nonlist" ->
                   /\ apc' = "paths" /\ UNCHANGED <<listFrom, aerror>>
              [] OTHER ->
                   /\ apc' = "failed" /\ UNCHANGED listFrom
                   /\ aerror' = [t |-> IF kind = "bad" THEN "JSONDecodeError"
                                                     ELSE "UnicodeDecodeError",
                                 path |-> Len(pathLog) + 1]
       ELSE IF StrLower(suffix) = SufZip
       THEN /\ apc' = "zip" /\ UNCHANGED <<listFrom, aerror>>
       ELSE /\ apc' = "paths" /\ UNCHANGED <<listFrom, aerror>>
    /\ UNCHANGED <<entryLog, seen, totals, result>>
    /\ UNCHANGED notAgg

\* parser.py:88 and 21-24, 33-34, 54-55: the next path is opened
OpenPath(suffix, kind) ==
    /\ apc = "paths"
    /\ Items < MaxItems
    /\ pathLog' = Append(pathLog, suffix)
    /\ IF StrLower(suffix) = SufJson
       THEN CASE kind = "list" ->
                   /\ apc' = "list" /\ listFrom' = "json" /\ aerror' = aerror
              [] kind = "nonlist" ->
                   /\ apc' = "paths" /\ UNCHANGED <<listFrom, aerror>>
              [] OTHER ->
                   \* json.load raises; nothing catches it in this branch
                   /\ apc' = "failed" /\ UNCHANGED listFrom
                   /\ aerror' = [t |-> IF kind = "bad" THEN "JSONDecodeError"
                                                     ELSE "UnicodeDecodeError",
                                 path |-> Len(pathLog) + 1]
       ELSE IF StrLower(suffix) = SufZip
       THEN /\ apc' = "zip" /\ UNCHANGED <<listFrom, aerror>>
       ELSE /\ apc' = "failed" /\ UNCHANGED listFrom
            /\ aerror' = [t |-> "ValueError", path |-> Len(pathLog) + 1]
    /\ UNCHANGED <<entryLog, seen, totals, result>>
    /\ UNCHANGED notAgg

\* parser.py:35-53: the next name of archive.namelist(); of what json.load
\* can raise on the entry, only json.JSONDecodeError is caught (line 46)
ZipEntry(name, kind) ==
    /\ apc = "zip"
    /\ Items < MaxItems
    /\ entryLog' = Append(entryLog,
           [name |-> name, kind |-> kind, path |-> Len(pathLog),
            opened |-> name \in SelectedNames])
    /\ IF name \in SelectedNames /\ kind = "list"
       THEN apc' = "list" /\ listFrom' = "zip" /\ aerror' = aerror
       ELSE IF name \in SelectedNames /\ kind = "undecodable"
       THEN /\ apc' = "failed" /\ UNCHANGED listFrom
            /\ aerror' = [t |-> "UnicodeDecodeError", path |-> Len(pathLog)]
       ELSE UNCHANGED <<apc, listFrom, aerror>>
    /\ UNCHANGED <<pathLog, seen, totals, result>>
    /\ UNCHANGED notAgg

\* parser.py:35: namelist() is exhausted
CloseZip ==
    /\ apc = "zip"
    /\ apc' = "paths"
    /\ UNCHANGED <<listFrom, pathLog, entryLog, seen, totals, result, aerror>>
    /\ UNCHANGED notAgg

\* parser.py:26-28, 49-51 and 89-98: one element of the list, and the loop body
\* of aggregate_archives when the element is a mapping
ReadElement(e) ==
    /\ apc = "list"
    /\ Items < MaxItems
    /\ Len(seen) < MaxRecords
    /\ seen' = Append(seen, [e |-> e, path |-> Len(pathLog)])
    /\ totals' = IF IsDict(e) THEN Accumulate(totals, e.f) ELSE totals
    /\ UNCHANGED <<apc, listFrom, pathLog, entryLog, result, aerror>>
    /\ UNCHANGED notAgg

\* parser.py:26, 49: the list is exhausted
EndList ==
    /\ apc = "list"
    /\ apc' = IF listFrom = "zip" THEN "zip" ELSE "paths"
    /\ UNCHANGED <<listFrom, pathLog, entryLog, seen, totals, result, aerror>>
    /\ UNCHANGED notAgg

\* parser.py:100: every path is read, the sorted values are returned
Finish ==
    /\ apc = "paths"
    /\ apc' = "done"
    /\ result' = SortedByMinutes(totals)
    /\ UNCHANGED <<listFrom, pathLog, entryLog, seen, totals, aerror>>
    /\ UNCHANGED notAgg

AggNext ==
    \/ \E suffix \in PathSuffixes, kind \in ContentKinds : OpenPath(suffix, kind)
    \/ \E name \in EntryNames, kind \in ContentKinds :
          \* the content of an entry that is not selected is never opened
          /\ name \in SelectedNames \/ kind = "list"
          /\ ZipEntry(name, kind)
    \/ CloseZip
    \/ \E e \in Elements : ReadElement(e)
    \/ EndList
    \/ Finish

\* the enricher is not running
AggInit == AggStart /\ EnrichIdle /\ BdayIdle /\ UpcomingIdle /\ ExportIdle /\ FilterIdle /\ TwiceIdle /\ ParseIdle /\ NotifyIdle /\ SaveIdle /\ LookupIdle /\ PagingIdle /\ ThreadsIdle

SpecAgg == AggInit /\ [][AggNext]_vars

-----------------------------------------------------------------------------
(* Properties of the archive reader and the aggregator *)

\* the claims' own reading of a list element: what it resolves to, and
\* whether it is one of the records that must not count
ElemFields(e) == _extract_album_entry(e.f)
ElemRejected(e) ==
    \/ ~IsDict(e)
    \/ ~Truthy(ElemFields(e).album)
    \/ ~Truthy(ElemFields(e).artist)
    \/ ~DoubleLt(DZero, ElemFields(e).minutes)
ElemKey(e) == <<Strip(ElemFields(e).album.s), Strip(ElemFields(e).artist.s)>>

\* the minutes of the accepted elements of seen[1..n] that belong to key,
\* added up in the order of reading
RECURSIVE MinutesFor(_, _)
MinutesFor(key, n) ==
    IF n = 0 THEN DZero
    ELSE IF ~ElemRejected(seen[n].e) /\ ElemKey(seen[n].e) = key
    THEN With(MinutesFor(key, n - 1),
              LAMBDA before : DoubleAdd(before, ElemFields(seen[n].e).minutes))
    ELSE MinutesFor(key, n - 1)

TracksFor(key) ==
    {ElemFields(seen[i].e).track.s : i \in
        {j \in 1..Len(seen) : /\ ~ElemRejected(seen[j].e)
                              /\ ElemKey(seen[j].e) = key
                              /\ Truthy(ElemFields(seen[j].e).track)}}

\* the selection rule as the specification words it: the name ends in .json
\* (in any letter case) and contains one of the three substrings as written
NamedAsHistory(name) ==
    /\ EndsWith(StrLower(name), SufJson)
    /\ \E i \in 1..Len(SUPPORTED_JSON_SUFFIXES) : Contains(name, SUPPORTED_JSON_SUFFIXES[i])

\* C1: a ZIP whose entry ".../Streaming_History_Audio_2024.json" lists one
\* extended-schema and one legacy-schema record of the same album yields
\* exactly one AlbumListening holding the summed minutes and both tracks, and
\* every ZIP entry whose name ends in .json and contains one of "endsong_",
\* "Streaming_History_Audio", "StreamingHistory" is opened and read.
C1_ZipHistoryEntriesAreRead ==
    /\ \A i \in 1..Len(entryLog) :
          NamedAsHistory(entryLog[i].name) => entryLog[i].opened
    /\ (/\ apc = "done"
        /\ pathLog = <<SufZip>>
        /\ Len(entryLog) = 1
        /\ entryLog[1].name = NameAudio2024 /\ entryLog[1].kind = "list")
       => (/\ Len(seen) = 2 /\ seen[1].e = RecExtended /\ seen[2].e = RecLegacy
           => result = << [album |-> StrAlbum, artist |-> StrArtist,
                           minutes |-> DoubleOf(600000 + 120000, MsPerMinute),
                           release_date |-> None, musicbrainz_id |-> None,
                           tracks |-> {StrTrackOne, StrTrackTwo}] >>)

\* one step of the aggregator over element e, as the claim C2 reads it
C2_Step(e) ==
    ReadElement(e) =>
      /\ ElemRejected(e) => totals' = totals
      /\ Len(totals') >= Len(totals)
      /\ \A i \in 1..Len(totals) :
            /\ <<totals'[i].album, totals'[i].artist>> = <<totals[i].album, totals[i].artist>>
            /\ DoubleLe(totals[i].minutes, totals'[i].minutes)
      \* whatever is added to an album is strictly positive
      /\ \A i \in 1..Len(totals') :
            LET before == IF i <= Len(totals) THEN totals[i].minutes ELSE DZero
            IN  \/ i <= Len(totals) /\ totals'[i].minutes = before
                \/ DoubleLt(before, totals'[i].minutes)

C2_Sums ==
    \A i \in 1..Len(totals) :
        totals[i].minutes = MinutesFor(<<totals[i].album, totals[i].artist>>, Len(seen))

\* C2: a record with a missing or empty album, a missing or empty artist, or
\* a duration that is absent or not positive changes no album total; every
\* amount added to an album's minutes is strictly positive, so no album's
\* minutes ever decreases, and each album's minutes equals the sum of
\* ms_played/60000 over its accepted records.
C2_OnlyPositiveContributions ==
    /\ []C2_Sums
    /\ [][\A e \in Elements : C2_Step(e)]_vars

\* a rejected record was read after an accepted one, and a second accepted
\* record was added to an existing album
C2_Witness ==
    \/ /\ Len(seen) = 2 /\ Len(totals) = 1
       /\ ~ElemRejected(seen[1].e) /\ seen[2].e = RecZeroPlay
    \/ /\ Len(seen) = 2 /\ Len(totals) = 1
       /\ seen[1].e = RecExtended /\ seen[2].e = RecLegacy

\* C3: the result holds at most one AlbumListening per (trimmed album,
\* trimmed artist) pair: the accepted records whose album and artist agree
\* after trimming are merged, across all archives of the run, into one entry
\* whose minutes is their sum and whose tracks is the set of their non-empty
\* track names.
C3_OneEntryPerTrimmedPair ==
    apc = "done" =>
      /\ \A i, j \in 1..Len(result) :
            i # j => <<Strip(result[i].album), Strip(result[i].artist)>>
                     # <<Strip(result[j].album), Strip(result[j].artist)>>
      /\ \A n \in 1..Len(seen) :
            ~ElemRejected(seen[n].e) =>
               \E i \in 1..Len(result) :
                  <<result[i].album, result[i].artist>> = ElemKey(seen[n].e)
      /\ \A i \in 1..Len(result) :
            LET key == <<result[i].album, result[i].artist>>
            IN  /\ result[i].minutes = MinutesFor(key, Len(seen))
                /\ result[i].tracks = TracksFor(key)
                /\ \E n \in 1..Len(seen) :
                      ~ElemRejected(seen[n].e) /\ ElemKey(seen[n].e) = key

\* two records that differ only in padding, read from two archives, were merged
C3_Witness ==
    /\ apc = "done"
    /\ Len(seen) = 2 /\ seen[1].path # seen[2].path
    /\ {seen[1].e, seen[2].e} = {RecExtended, RecPadded}
    /\ Len(result) = 1

-----------------------------------------------------------------------------
(* album_analyzer/release_date.py: title variants *)

\* the alternatives of _EDITION_KEYWORDS, matched with re.IGNORECASE
EditionKeywords ==
    { <<"d","e","l","u","x","e">>, <<"e","x","p","a","n","d","e","d">>,
      <<"e","x","t","e","n","d","e","d">>, <<"e","d","i","t","i","o","n">>,
      <<"v","e","r","s","i","o","n">>, <<"r","e","m","a","s","t","e","r">>,
      <<"r","e","m","a","s","t","e","r","e","d">>,
      <<"a","n","n","i","v","e","r","s","a","r","y">>, <<"b","o","n","u","s">>,
      <<"s","p","e","c","i","a","l">>, <<"s","u","p","e","r">> }

\* the characters of the class [-:<en dash><em dash>]; the two dashes beyond
\* ASCII are written as tokens
EnDash == "<U+2013>"
EmDash == "<U+2014>"
Separators == {"-", ":", EnDash, EmDash}

\* the characters \s matches
RegexSpace == Whitespace

\* what re.IGNORECASE lets an ASCII letter of a pattern match besides itself
\* and its capital
FoldsToAscii ==
    ("<U+0130>" :> "i") @@ ("<U+0131>" :> "i") @@ ("<U+017F>" :> "s") @@ ("<U+212A>" :> "k")

\* the ASCII letter that c matches under re.IGNORECASE, c itself when none
IgnoreCase(c) ==
    IF c \in DOMAIN LowerOf THEN LowerOf[c]
    ELSE IF c \in DOMAIN FoldsToAscii THEN FoldsToAscii[c]
    ELSE c

\* whether (?:keywords) matches somewhere in segment
HasKeyword(segment) ==
    \E kw \in EditionKeywords :
        Contains([i \in 1..Len(segment) |-> IgnoreCase(segment[i])], kw)

\* where a greedy \s* started at i stops: the first index >= i that holds no
\* whitespace, Len(s) + 1 when there is none
RECURSIVE SpaceEnd(_, _)
SpaceEnd(s, i) ==
    IF i <= Len(s) /\ s[i] \in RegexSpace THEN SpaceEnd(s, i + 1) ELSE i

\* the first index > j holding c, 0 when there is none
RECURSIVE FirstAfter(_, _, _)
FirstAfter(s, j, c) ==
    IF j >= Len(s) THEN 0
    ELSE IF s[j + 1] = c THEN j + 1 ELSE FirstAfter(s, j + 1, c)

\* a match of \s*<open>[^<close>]*(?:keywords)[^<close>]*<close> starting at i:
\* the index of its last character, 0 when there is no match
BracketMatchEnd(s, i, open, close) ==
    LET j == SpaceEnd(s, i)
        k == FirstAfter(s, j, close)
    IN  IF j <= Len(s) /\ s[j] = open /\ k > 0 /\ HasKeyword(SubSeq(s, j + 1, k - 1))
        THEN k ELSE 0

\* pattern.sub("", s) for one of _BRACKET_PATTERNS, scanning from index i
RECURSIVE SubBracket(_, _, _, _)
SubBracket(s, i, open, close) ==
    IF i > Len(s) THEN <<>>
    ELSE IF BracketMatchEnd(s, i, open, close) > 0
    THEN SubBracket(s, BracketMatchEnd(s, i, open, close) + 1, open, close)
    ELSE <<s[i]>> \o SubBracket(s, i + 1, open, close)

\* a match of _SUFFIX_PATTERN starting at i; it always runs to the end of s
SuffixMatchAt(s, i) ==
    LET j == SpaceEnd(s, i)
    IN  /\ j <= Len(s)
        /\ s[j] \in Separators
        /\ \A k \in (j + 1)..Len(s) : s[k] \notin Separators
        /\ HasKeyword(SubSeq(s, j + 1, Len(s)))

\* _SUFFIX_PATTERN.sub("", s): the leftmost match is cut off
SubSuffix(s) ==
    LET starts == {i \in 1..Len(s) : SuffixMatchAt(s, i)}
    IN  IF starts = {} THEN s
        ELSE SubSeq(s, 1, (CHOOSE i \in starts : \A k \in starts : i <= k) - 1)

\* release_date.py:52-60: one round of the while loop
StripRound(s) ==
    SubSuffix(SubBracket(SubBracket(SubBracket(s, 1, "(", ")"), 1, "[", "]"), 1, "{", "}"))

\* release_date.py:50-60: the loop runs until a round changes nothing
RECURSIVE StripRounds(_)
StripRounds(s) == IF StripRound(s) = s THEN s ELSE StripRounds(StripRound(s))

\* re.sub(r"\s{2,}", " ", s), scanning from index i
RECURSIVE CollapseSpaces(_, _)
CollapseSpaces(s, i) ==
    IF i > Len(s) THEN <<>>
    ELSE IF SpaceEnd(s, i) >= i + 2
    THEN <<" ">> \o CollapseSpaces(s, SpaceEnd(s, i))
    ELSE <<s[i]>> \o CollapseSpaces(s, i + 1)

_strip_edition_suffixes(title) ==
    StripChars(CollapseSpaces(StripRounds(title), 1), {" "} \cup Separators)

\* release_date.py:65-76
_title_variants(album) ==
    LET first == Strip(album)
        second == Strip(_strip_edition_suffixes(album))
        found ==
            (IF first # <<>> THEN <<first>> ELSE <<>>)
            \o (IF second # <<>> /\ ~(first # <<>> /\ StrLower(second) = StrLower(first))
                THEN <<second>> ELSE <<>>)
    IN  IF found # <<>> THEN found ELSE <<album>>

-----------------------------------------------------------------------------
(* album_analyzer/release_date.py: dates and the catalog response *)

Digits == <<"0","1","2","3","4","5","6","7","8","9">>
IsDigit(c) == \E i \in 1..Len(Digits) : Digits[i] = c
DigitValue(c) == (CHOOSE i \in 1..Len(Digits) : Digits[i] = c) - 1

\* the characters int() skips before and after a number
IntSpace ==
    { "\t", "\n", "<U+000B>", "\f", "\r", " ", "<U+0085>", "<U+00A0>", "<U+1680>", "<U+2000>",
      "<U+2001>", "<U+2002>", "<U+2003>", "<U+2004>", "<U+2005>", "<U+2006>", "<U+2007>",
      "<U+2008>", "<U+2009>", "<U+200A>", "<U+2028>", "<U+2029>", "<U+202F>", "<U+205F>",
      "<U+3000>" }

\* the code points of the characters int() reads as the digit 0; the nine
\* characters after each are its digits 1 to 9
DecimalZeros ==
    { \h0030, \h0660, \h06F0, \h07C0, \h0966, \h09E6, \h0A66, \h0AE6, \h0B66, \h0BE6, \h0C66,
      \h0CE6, \h0D66, \h0DE6, \h0E50, \h0ED0, \h0F20, \h1040, \h1090, \h17E0, \h1810, \h1946,
      \h19D0, \h1A80, \h1A90, \h1B50, \h1BB0, \h1C40, \h1C50, \hA620, \hA8D0, \hA900, \hA9D0,
      \hA9F0, \hAA50, \hABF0, \hFF10, \h104A0, \h10D30, \h11066, \h110F0, \h11136, \h111D0,
      \h112F0, \h11450, \h114D0, \h11650, \h116C0, \h11730, \h118E0, \h11950, \h11C50, \h11D50,
      \h11DA0, \h16A60, \h16AC0, \h16B50, \h1D7CE, \h1D7D8, \h1D7E2, \h1D7EC, \h1D7F6, \h1E140,
      \h1E2F0, \h1E950, \h1FBF0 }

\* whether int() reads c as a digit, and as which
IsDecimal(c) ==
    \/ IsDigit(c)
    \/ Len(c) > 1 /\ \E zero \in DecimalZeros : ord(c) \in zero..(zero + 9)
DecimalValue(c) ==
    IF IsDigit(c) THEN DigitValue(c)
    ELSE ord(c) - (CHOOSE zero \in DecimalZeros : ord(c) \in zero..(zero + 9))

\* raw.split(sep): the parts of s between the occurrences of sep
RECURSIVE Split(_, _)
Split(s, sep) ==
    IF \E i \in 1..Len(s) : s[i] = sep
    THEN LET i == CHOOSE k \in 1..Len(s) : s[k] = sep /\ \A j \in 1..(k - 1) : s[j] # sep
         IN  <<SubSeq(s, 1, i - 1)>> \o Split(SubSeq(s, i + 1, Len(s)), sep)
    ELSE <<s>>

\* str(p).strip() as int() does it
IntStrip(p) == StripChars(p, IntSpace)

\* sys.int_info.default_max_str_digits: the most digits int() converts
MaxStrDigits == 4300

\* what follows the sign of a literal
LiteralBody(q) == IF q # <<>> /\ q[1] \in {"+", "-"} THEN Tail(q) ELSE q

\* whether int(p) accepts p: surrounding whitespace, an optional sign, then
\* digits with single underscores between them, and no more than
\* MaxStrDigits digits (leading zeros count, underscores do not); int()
\* raises ValueError otherwise
IsIntLiteral(p) ==
    With(LiteralBody(IntStrip(p)),
         LAMBDA body :
            /\ body # <<>>
            /\ \A i \in 1..Len(body) : IsDecimal(body[i]) \/ body[i] = "_"
            /\ IsDecimal(body[1]) /\ IsDecimal(body[Len(body)])
            /\ \A i \in 1..(Len(body) - 1) : ~(body[i] = "_" /\ body[i + 1] = "_")
            /\ Len(SelectSeq(body, LAMBDA c : c # "_")) <= MaxStrDigits)

\* the digits of a literal without its sign, its underscores and its leading
\* zeros
Significant(q) ==
    With(SelectSeq(LiteralBody(q), LAMBDA c : c # "_"),
         LAMBDA marks :
            LET first == IF \E i \in 1..Len(marks) : DecimalValue(marks[i]) # 0
                         THEN CHOOSE i \in 1..Len(marks) :
                                  DecimalValue(marks[i]) # 0
                                  /\ \A j \in 1..(i - 1) : DecimalValue(marks[j]) = 0
                         ELSE Len(marks) + 1
            IN  SubSeq(marks, first, Len(marks)))

RECURSIVE DigitsValue(_, _)
DigitsValue(body, acc) ==
    IF body = <<>> THEN acc
    ELSE DigitsValue(Tail(body), 10 * acc + DecimalValue(Head(body)))

\* int(p) for a p that IsIntLiteral accepts and whose value is a C int (the
\* callers test FitsCInt first, or pass texts of day ranges within it)
IntOf(p) ==
    With(IntStrip(p),
         LAMBDA q : IF q[1] = "-" THEN -DigitsValue(Significant(q), 0)
                    ELSE DigitsValue(Significant(q), 0))

\* the largest C int: datetime.date takes its three arguments as C ints
INT_MAX == 2147483647

\* whether the digits of body, read after acc, stay within INT_MAX
RECURSIVE DigitsFit(_, _)
DigitsFit(body, acc) ==
    IF body = <<>> THEN TRUE
    ELSE /\ acc <= (INT_MAX - DecimalValue(Head(body))) \div 10
         /\ DigitsFit(Tail(body), 10 * acc + DecimalValue(Head(body)))

\* whether int(p) is a C int, for a p that IsIntLiteral accepts; below zero
\* the range goes one further, to -INT_MAX - 1
FitsCInt(p) ==
    With(Significant(IntStrip(p)),
         LAMBDA digits :
            \/ DigitsFit(digits, 0)
            \/ /\ IntStrip(p)[1] = "-"
               /\ [i \in 1..Len(digits) |-> DecimalValue(digits[i])]
                     = <<2, 1, 4, 7, 4, 8, 3, 6, 4, 8>>)

OverflowError == [t |-> "OverflowError"]

MAXYEAR == 9999

IsLeap(y) == (y % 4 = 0 /\ y % 100 # 0) \/ y % 400 = 0

DaysInMonth(y, m) ==
    IF m = 2 THEN (IF IsLeap(y) THEN 29 ELSE 28)
    ELSE IF m \in {4, 6, 9, 11} THEN 30 ELSE 31

\* whether datetime.date(y, m, d) is a date rather than a ValueError
ValidDate(y, m, d) ==
    /\ 1 <= y /\ y <= MAXYEAR
    /\ 1 <= m /\ m <= 12
    /\ 1 <= d /\ d <= DaysInMonth(y, m)

Date(y, m, d) == [y |-> y, m |-> m, d |-> d]

\* a < b on dates
DateLt(a, b) ==
    \/ a.y < b.y
    \/ a.y = b.y /\ a.m < b.m
    \/ a.y = b.y /\ a.m = b.m /\ a.d < b.d

\* release_date.py:31-44; raw is None or a str.  The int() calls come first
\* and raise ValueError for a part that is no literal; date() then raises
\* OverflowError for an argument that is no C int, which line 42 does not
\* catch, and ValueError for one out of range.
_parse_release_date(raw) ==
    IF ~Truthy(raw) THEN None
    ELSE With(Split(raw.s, "-"),
              LAMBDA parts :
                 LET n == Len(parts)
                     y == IntOf(parts[1])
                     m == IF n >= 2 THEN IntOf(parts[2]) ELSE 1
                     d == IF n = 3 THEN IntOf(parts[3]) ELSE 1
                 IN  IF n > 3 \/ \E i \in 1..n : ~IsIntLiteral(parts[i]) THEN None
                     ELSE IF \E i \in 1..n : ~FitsCInt(parts[i]) THEN OverflowError
                     ELSE IF ValidDate(y, m, d) THEN Date(y, m, d)
                     ELSE None)

\* release_date.py:94-101: the loop over payload.get("release-groups", []),
\* groups[1..n] taken in order
RECURSIVE BestOf(_, _)
BestOf(groups, n) ==
    IF n = 0 THEN [id |-> None, date |-> None]
    ELSE LET best == BestOf(groups, n - 1)
             current_date == _parse_release_date(Get(groups[n], "first-release-date"))
         IN  IF best = OverflowError \/ current_date = OverflowError
             THEN \* the exception leaves the loop and _perform_lookup
                  OverflowError
             ELSE IF current_date # None /\ (best.date = None \/ DateLt(current_date, best.date))
             THEN [id |-> Get(groups[n], "id"), date |-> current_date]
             ELSE best

\* release_date.py:79-101, for a response that arrived: payload is the parsed
\* JSON object
\* _perform_lookup that takes the id of the first group whatever its date
PerformLookupKeepingId(payload) ==
    LET groups == IF "release-groups" \in DOMAIN payload
                  THEN payload["release-groups"] ELSE <<>>
        best == BestOf(groups, Len(groups))
    IN  IF best # OverflowError /\ best.date = None /\ groups # <<>>
        THEN [id |-> Get(groups[1], "id"), date |-> None]
        ELSE best

_perform_lookup(payload) ==
    LET groups == IF "release-groups" \in DOMAIN payload
                  THEN payload["release-groups"] ELSE <<>>
    IN  BestOf(groups, Len(groups))

-----------------------------------------------------------------------------
(* album_analyzer/release_date.py: lookup_release and enrich_with_release_dates *)

TitleDeluxe == <<"P","i","n","k","e","r","t","o","n"," ","-"," ","D","e","l","u","x","e"," ","E","d","i","t","i","o","n">>
TitlePlain == <<"P","i","n","k","e","r","t","o","n">>
TitleUpper == <<"P","I","N","K","E","R","T","O","N">>
TitlePadded == <<" ","P","i","n","k","e","r","t","o","n"," ","(","B","o","n","u","s",")">>
TitleBlank == <<" "," ">>
ArtistWeezer == <<"W","e","e","z","e","r">>
ArtistUpper == <<"W","E","E","Z","E","R">>

DateStored == Date(1996, 9, 1)
IdStored == <<"s","t","o","r","e","d">>

Album(title, artist, release_date, musicbrainz_id) ==
    [album |-> title, artist |-> artist, minutes |-> DoubleOf(120, 1),
     release_date |-> release_date, musicbrainz_id |-> musicbrainz_id, tracks |-> {}]

\* the albums an enrichment run may be given
AlbumChoices ==
    { Album(TitleDeluxe, ArtistWeezer, None, None),
      Album(TitlePlain, ArtistWeezer, None, None),
      Album(TitleUpper, ArtistUpper, None, None),
      Album(TitlePadded, ArtistWeezer, None, JStr(IdStored)),
      Album(TitleBlank, ArtistWeezer, None, None),
      Album(TitlePlain, ArtistWeezer, DateStored, JStr(IdStored)) }

\* the responses of the catalog: the two of tests/test_release_date.py:20-30,
\* one whose groups are out of date order, one whose only date does not parse
Group(id, first_release_date) ==
    ("id" :> JStr(id)) @@ ("first-release-date" :> JStr(first_release_date))

PayloadEmpty == ("release-groups" :> <<>>)
PayloadPinkerton ==
    ("release-groups" :> << Group(<<"p","i","n","k","e","r","t","o","n">>, <<"1","9","9","6","-","0","9","-","2","4">>) >>)
PayloadTwoGroups ==
    ("release-groups" :> << Group(<<"r","e","i","s","s","u","e">>, <<"2","0","1","0","-","1","1">>),
                            Group(<<"f","i","r","s","t">>, <<"1","9","9","6">>) >>)
PayloadUndated == ("release-groups" :> << Group(<<"u","n","d","a","t","e","d">>, <<"?">>) >>)
Payloads == {PayloadEmpty, PayloadPinkerton, PayloadTwoGroups, PayloadUndated}

\* pause_seconds=1.1, in tenths of a second
PauseDefault == 11
Pauses == {0, PauseDefault}

NoResult == [id |-> None, date |-> None]

\* CacheKey without the two lower() calls
CacheKeyAsWritten(album, artist) == <<album, artist>>

\* release_date.py:105: cache_key
CacheKey(album, artist) == <<StrLower(album), StrLower(artist)>>

\* release_date.py:117: candidate_key
CandidateKey(candidate, artist) == <<StrLower(candidate), StrLower(artist)>>

\* _CACHE[key] = value
CachePut(c, key, value) ==
    [k \in DOMAIN c \cup {key} |-> IF k = key THEN value ELSE c[k]]

\* ApplyResult assigning both fields whatever the lookup returned
ApplyResultAlways(album, found) ==
    [album EXCEPT !.release_date = found.date, !.musicbrainz_id = found.id]

\* release_date.py:152-155: the fields of the album are set from a lookup result
ApplyResult(album, found) ==
    [album EXCEPT
        !.release_date = IF found.date # None THEN found.date ELSE @,
        !.musicbrainz_id = IF Truthy(found.id) THEN found.id ELSE @]

\* release_date.py:157: whether time.sleep(pause_seconds) is called
ShouldSleep(pause, i, n) == pause # 0 /\ i < n

\* StopsAt never leaving the loop early
StopsAtNever(found) == FALSE

\* release_date.py:123-125: the break out of the loop over the variants
StopsAt(found) == found.date # None

\* release_date.py:126-127
NextBest(best, found) == IF best = NoResult THEN found ELSE best

current == album_list[index]

\* what the run did, in order: the external queries (session.get, release_date.py:85)
\* and the pacing waits (time.sleep, release_date.py:158)
Query(i, candidate, artist, ok, found) ==
    [t |-> "query", idx |-> i, candidate |-> candidate, artist |-> artist,
     ok |-> ok, found |-> found]
Sleep(i) ==
    [t |-> "sleep", idx |-> i, candidate |-> <<>>, artist |-> <<>>,
     ok |-> TRUE, found |-> NoResult]

EnrichStart ==
    /\ cache = <<>>
    /\ album_list \in UNION {[1..n -> AlbumChoices] : n \in 0..MaxAlbums}
    /\ input = album_list
    /\ pause_seconds \in Pauses
    /\ index = 1
    /\ enriched = <<>>
    /\ epc = "loop"
    /\ variants = <<>>
    /\ vi = 1
    /\ best_result = NoResult
    /\ events = <<>>
    /\ calls = <<>>
    /\ failed = {}

\* release_date.py:143-145: an album that carries a release date is passed on
SkipDated ==
    /\ epc = "loop" /\ index <= Len(album_list)
    /\ current.release_date # None
    /\ enriched' = Append(enriched, current)
    /\ index' = index + 1
    /\ UNCHANGED <<cache, album_list, input, pause_seconds, epc, variants, vi,
                   best_result, events, calls, failed>>
    /\ UNCHANGED notEnrich

\* release_date.py:147 and 152-158: lookup_release returned found for the
\* current album, with the cache now c and the record of the call now call
Returned(found, c, call, evs) ==
    /\ cache' = c
    /\ album_list' = [album_list EXCEPT ![index] = ApplyResult(@, found)]
    /\ enriched' = Append(enriched, ApplyResult(current, found))
    /\ events' = IF ShouldSleep(pause_seconds, index, Len(album_list))
                 THEN Append(evs, Sleep(index))
                 ELSE evs
    /\ calls' = call
    /\ index' = index + 1
    /\ epc' = "loop"
    /\ variants' = <<>> /\ vi' = 1 /\ best_result' = NoResult
    /\ UNCHANGED <<input, pause_seconds, failed>>

\* release_date.py:105-107: the answer is in the cache under the original key
LookupCached ==
    /\ epc = "loop" /\ index <= Len(album_list)
    /\ current.release_date = None
    /\ CacheKey(current.album, current.artist) \in DOMAIN cache
    /\ LET found == cache[CacheKey(current.album, current.artist)]
       IN  Returned(found, cache,
                    Append(calls, [idx |-> index, tried |-> <<>>, outcome |-> "returned",
                                   returned |-> found]),
                    events)
    /\ UNCHANGED notEnrich

\* release_date.py:109-116: no answer in the cache, the loop over the variants starts
BeginLookup ==
    /\ epc = "loop" /\ index <= Len(album_list)
    /\ current.release_date = None
    /\ CacheKey(current.album, current.artist) \notin DOMAIN cache
    /\ epc' = "variants"
    /\ variants' = _title_variants(current.album)
    /\ vi' = 1
    /\ best_result' = NoResult
    /\ calls' = Append(calls, [idx |-> index, tried |-> <<>>, outcome |-> "running",
                               returned |-> NoResult])
    /\ UNCHANGED <<cache, album_list, input, pause_seconds, index, enriched, events, failed>>
    /\ UNCHANGED notEnrich

\* release_date.py:123-129: what follows once the current variant gave found
\* (via the cache or a query), with the cache now c
AfterVariant(found, via, c, evs) ==
    LET call == [calls EXCEPT ![Len(calls)].tried =
                    Append(@, [candidate |-> variants[vi], via |-> via, found |-> found])]
        best == IF StopsAt(found) THEN found ELSE NextBest(best_result, found)
    IN  IF StopsAt(found) \/ vi = Len(variants)
        THEN Returned(best, CachePut(c, CacheKey(current.album, current.artist), best),
                      [call EXCEPT ![Len(calls)].outcome = "returned",
                                   ![Len(calls)].returned = best],
                      evs)
        ELSE /\ cache' = c
             /\ calls' = call
             /\ events' = evs
             /\ vi' = vi + 1
             /\ best_result' = best
             /\ epc' = "variants"
             /\ UNCHANGED <<album_list, input, pause_seconds, index, enriched,
                            variants, failed>>

\* release_date.py:118-119: the variant is in the cache
VariantCached ==
    /\ epc = "variants"
    /\ CandidateKey(variants[vi], current.artist) \in DOMAIN cache
    /\ AfterVariant(cache[CandidateKey(variants[vi], current.artist)], "cache", cache, events)
    /\ UNCHANGED notEnrich

\* release_date.py:118 and 120-121, with 85-90: the variant is not in the cache
\* and the request is sent; the caller waits in session.get
VariantAsk ==
    /\ epc = "variants"
    /\ CandidateKey(variants[vi], current.artist) \notin DOMAIN cache
    /\ epc' = "get"
    /\ UNCHANGED <<cache, album_list, input, pause_seconds, index, enriched, variants,
                   vi, best_result, events, calls, failed>>
    /\ UNCHANGED notEnrich

\* release_date.py:91-101 and 121-122: the catalog answers with payload and the
\* result is stored under the key of the variant. This run has one caller
\* (cli.py:28), so nothing else touches _CACHE while it waits; callers that
\* overlap are the subject of the part on threads.
VariantQuery(payload) ==
    /\ epc = "get"
    /\ LET found == _perform_lookup(payload)
       IN  AfterVariant(found, "query",
                        CachePut(cache, CandidateKey(variants[vi], current.artist), found),
                        Append(events, Query(index, variants[vi], current.artist, TRUE, found)))
    /\ UNCHANGED notEnrich

\* VariantError with the exception leaving enrich_with_release_dates
VariantErrorAborts ==
    /\ epc = "get"
    /\ events' = Append(events, Query(index, variants[vi], current.artist, FALSE, NoResult))
    /\ calls' = [calls EXCEPT ![Len(calls)].outcome = "raised"]
    /\ failed' = failed \cup {index}
    /\ epc' = "raised"
    /\ UNCHANGED <<cache, album_list, input, pause_seconds, index, enriched, variants,
                   vi, best_result>>
    /\ UNCHANGED notEnrich

\* release_date.py:85-91 and 148-151: the query raises a requests.RequestException,
\* which leaves lookup_release and is caught by the enricher
VariantError ==
    /\ epc = "get"
    /\ events' = Append(events, Query(index, variants[vi], current.artist, FALSE, NoResult))
    /\ calls' = [calls EXCEPT ![Len(calls)].outcome = "raised"]
    /\ failed' = failed \cup {index}
    /\ enriched' = Append(enriched, current)
    /\ index' = index + 1
    /\ epc' = "loop"
    /\ variants' = <<>> /\ vi' = 1 /\ best_result' = NoResult
    /\ UNCHANGED <<cache, album_list, input, pause_seconds>>
    /\ UNCHANGED notEnrich

\* release_date.py:159: the list is returned
EnrichReturn ==
    /\ epc = "loop" /\ index > Len(album_list)
    /\ epc' = "done"
    /\ UNCHANGED <<cache, album_list, input, pause_seconds, index, enriched, variants,
                   vi, best_result, events, calls, failed>>
    /\ UNCHANGED notEnrich

EnrichInit == EnrichStart /\ AggIdle /\ BdayIdle /\ UpcomingIdle /\ ExportIdle /\ FilterIdle /\ TwiceIdle /\ ParseIdle /\ NotifyIdle /\ SaveIdle /\ LookupIdle /\ PagingIdle /\ ThreadsIdle

EnrichNext ==
    \/ SkipDated
    \/ LookupCached
    \/ BeginLookup
    \/ VariantCached
    \/ VariantAsk
    \/ \E payload \in Payloads : VariantQuery(payload)
    \/ VariantError
    \/ EnrichReturn

SpecEnrich == EnrichInit /\ [][EnrichNext]_vars

-----------------------------------------------------------------------------
(* Properties of lookup_release and enrich_with_release_dates *)

IdPinkerton == JStr(<<"p","i","n","k","e","r","t","o","n">>)
DatePinkerton == Date(1996, 9, 24)

Calls == {calls[k] : k \in 1..Len(calls)}
QueriesOf(i) == {k \in 1..Len(events) : events[k].t = "query" /\ events[k].idx = i}

\* the variants of one call were tried in order, first being the first of
\* them, and none after a dated one
C4_InOrder(c, first) ==
    LET title == input[c.idx].album
        t == c.tried
        n == Len(t)
    IN  /\ n <= 2
        /\ n >= 1 => t[1].candidate = first
        /\ n = 2 => t[2].candidate = Strip(_strip_edition_suffixes(title))
        /\ \A k \in 1..(n - 1) : t[k].found.date = None
        /\ (c.outcome = "returned" /\ n >= 1 /\ t[n].found.date # None)
              => c.returned = t[n].found

\* a title that trims to nothing
Blank(title) == Strip(title) = <<>>

\* the case of tests/test_release_date.py:38-53
C4_DeluxeCase(c) ==
    /\ input[c.idx].album = TitleDeluxe
    /\ Len(c.tried) = 2
    /\ c.tried[1].via = "query" /\ c.tried[1].found = NoResult
    /\ c.tried[2].via = "query" /\ c.tried[2].found.date # None

\* what the case of the test comes to
C4_DeluxeResult(c) ==
    /\ c.outcome = "returned"
    /\ c.returned = c.tried[2].found
    /\ c.tried[2].candidate = TitlePlain
    /\ Cardinality(QueriesOf(c.idx)) = 2

\* C4 as claimed: lookup_release tries the trimmed title first and the
\* edition-stripped title second, tries nothing after a variant that gave a
\* date and returns that variant's (id, date); an empty answer for the exact
\* title followed by a dated answer for the stripped title returns the latter
\* after exactly two queries.
C4_TrimmedTitleAlwaysFirst ==
    \A c \in Calls :
        /\ C4_InOrder(c, Strip(input[c.idx].album))
        /\ C4_DeluxeCase(c) => C4_DeluxeResult(c)

\* C4: lookup_release tries the trimmed title first, or the title as it was
\* given when it trims to nothing (release_date.py:76), and the
\* edition-stripped title second, tries nothing after a variant that gave a
\* date and returns that variant's (id, date); an empty answer for the exact
\* title followed by a dated answer for the stripped title returns the latter
\* after exactly two queries.
C4_VariantsInOrderUntilDated ==
    \A c \in Calls :
        /\ C4_InOrder(c, IF Blank(input[c.idx].album) THEN input[c.idx].album
                         ELSE Strip(input[c.idx].album))
        /\ Blank(input[c.idx].album) => Len(c.tried) <= 1
        /\ C4_DeluxeCase(c) => C4_DeluxeResult(c)

\* the run of the test, and a lookup of a blank title that was sent as given
C4_Witness ==
    /\ \E c \in Calls :
          /\ C4_DeluxeCase(c)
          /\ c.returned = [id |-> IdPinkerton, date |-> DatePinkerton]
    /\ \E c \in Calls :
          /\ input[c.idx].album = TitleBlank
          /\ Len(c.tried) = 1
          /\ c.tried[1].via = "query" /\ c.tried[1].candidate = TitleBlank

SameEntry(a, b) ==
    /\ a.album = b.album /\ a.artist = b.artist
    /\ a.minutes = b.minutes /\ a.tracks = b.tracks

\* C7: an album whose lookup raised a transport error is passed on with its
\* release_date and musicbrainz_id unchanged, and the returned list holds every
\* input album once, in input order, every undated one having been looked up.
C7_FailureIsPerAlbum ==
    /\ \A i \in failed :
          /\ i <= Len(enriched)
          /\ enriched[i].release_date = input[i].release_date
          /\ enriched[i].musicbrainz_id = input[i].musicbrainz_id
    /\ epc = "done" =>
          /\ Len(enriched) = Len(input)
          /\ \A i \in 1..Len(input) :
                /\ SameEntry(enriched[i], input[i])
                /\ input[i].release_date = None
                      => \E c \in Calls : c.idx = i /\ c.outcome # "running"

C7_Witness ==
    /\ epc = "done"
    /\ \E i \in failed : \E j \in 1..Len(enriched) :
          /\ i < j
          /\ input[j].release_date = None
          /\ enriched[j].release_date # None

\* C8: an album that came with a release_date is neither looked up nor waited
\* for and keeps both fields; an album without one has a field changed only to
\* a non-null value its lookup returned.
C8_DatedAlbumsUntouched ==
    \A i \in 1..Len(enriched) :
        IF input[i].release_date # None
        THEN /\ enriched[i] = input[i]
             /\ \A k \in 1..Len(events) : events[k].idx # i
             /\ \A c \in Calls : c.idx # i
        ELSE /\ enriched[i].release_date # input[i].release_date
                   => \E c \in Calls : /\ c.idx = i /\ c.outcome = "returned"
                                       /\ c.returned.date = enriched[i].release_date
                                       /\ c.returned.date # None
             /\ enriched[i].musicbrainz_id # input[i].musicbrainz_id
                   => \E c \in Calls : /\ c.idx = i /\ c.outcome = "returned"
                                       /\ c.returned.id = enriched[i].musicbrainz_id
                                       /\ c.returned.id # None

C8_Witness ==
    /\ epc = "done" /\ Len(enriched) = 2
    /\ input[2].release_date # None
    /\ input[1].release_date = None /\ enriched[1].release_date # None
    /\ \E k \in 1..Len(events) : events[k].t = "sleep"

\* C9: with a positive pacing interval, no two external queries follow one
\* another without a pacing wait between them.
C9_QueriesArePaced ==
    pause_seconds > 0 =>
        \A k \in 1..(Len(events) - 1) :
            ~(events[k].t = "query" /\ events[k + 1].t = "query")

-----------------------------------------------------------------------------
(* bot/birthdays.py: _replace_year and next_birthday *)

\* the ValueError raised by datetime.date for a date that does not exist
ValueError == [t |-> "ValueError"]

\* the dates of the given years, months and days that exist
DatesOf(years, months, days) ==
    {Date(y, m, d) : <<y, m, d>> \in
        {ymd \in years \X months \X days : ValidDate(ymd[1], ymd[2], ymd[3])}}

\* release dates: a leap year and a common year, with the ends of February
ReleaseDates == DatesOf({2020, 2021}, {2, 5, 12}, {1, 28, 29, 31})

\* reference dates: a common year, a leap year and the last year of datetime.date
ReferenceDates == DatesOf({2023, 2024, MAXYEAR}, {2, 3, 5, 6, 12}, {1, 28, 29, 31})

\* _replace_year without the except branch
_replace_year_strict(source, year) ==
    IF ValidDate(year, source.m, source.d) THEN Date(year, source.m, source.d)
    ELSE ValueError

\* birthdays.py:18-25
_replace_year(source, year) ==
    IF ValidDate(year, source.m, source.d) THEN Date(year, source.m, source.d)
    ELSE IF source.m = 2 /\ source.d = 29 /\ ValidDate(year, 2, 28) THEN Date(year, 2, 28)
    ELSE ValueError

\* next_birthday with candidate <= today for candidate < today
next_birthday_after(release_date, today) ==
    LET candidate == _replace_year(release_date, today.y)
    IN  IF candidate = ValueError THEN ValueError
        ELSE IF ~DateLt(today, candidate) THEN _replace_year(release_date, today.y + 1)
        ELSE candidate

\* birthdays.py:28-33, for a today that is given
next_birthday(release_date, today) ==
    LET candidate == _replace_year(release_date, today.y)
    IN  IF candidate = ValueError THEN ValueError
        ELSE IF DateLt(candidate, today) THEN _replace_year(release_date, today.y + 1)
        ELSE candidate

\* birthdays.py:30-32: the years next_birthday passes to _replace_year, in
\* order, each with what _replace_year gave
Substituted(release_date, today) ==
    LET first == [year |-> today.y, got |-> _replace_year(release_date, today.y)]
        second == [year |-> today.y + 1, got |-> _replace_year(release_date, today.y + 1)]
    IN  IF first.got # ValueError /\ DateLt(first.got, today)
        THEN <<first, second>>
        ELSE <<first>>

BdayStart ==
    /\ bpc = "call"
    /\ b_release \in ReleaseDates
    /\ b_today \in ReferenceDates
    /\ b_next = None
    /\ b_years = <<>>

\* birthdays.py:28-33: one call of next_birthday
NextBirthday ==
    /\ bpc = "call"
    /\ b_next' = next_birthday(b_release, b_today)
    /\ b_years' = Substituted(b_release, b_today)
    /\ bpc' = "done"
    /\ UNCHANGED <<b_release, b_today>>
    /\ UNCHANGED notBday

BdayInit == BdayStart /\ AggIdle /\ EnrichIdle /\ UpcomingIdle /\ ExportIdle /\ FilterIdle /\ TwiceIdle /\ ParseIdle /\ NotifyIdle /\ SaveIdle /\ LookupIdle /\ PagingIdle /\ ThreadsIdle

BdayNext == NextBirthday

SpecBday == BdayInit /\ [][BdayNext]_vars

-----------------------------------------------------------------------------
(* Properties of next_birthday *)

DateLe(a, b) == a = b \/ DateLt(a, b)

\* q carries the month and day of rel, February 28 standing for February 29
\* in a year that has none
Carries(q, rel) ==
    \/ q.m = rel.m /\ q.d = rel.d
    \/ rel.m = 2 /\ rel.d = 29 /\ ~IsLeap(q.y) /\ q.m = 2 /\ q.d = 28

\* the dates on or after ref that carry the month and day of rel, as far as
\* the year after ref
Anniversaries(rel, ref) ==
    {q \in DatesOf({ref.y, ref.y + 1}, 1..12, 1..31) : Carries(q, rel) /\ DateLe(ref, q)}

IsEarliest(next, rel, ref) ==
    /\ next \in Anniversaries(rel, ref)
    /\ \A q \in Anniversaries(rel, ref) : DateLe(next, q)
    /\ next.y = IF \E q \in Anniversaries(rel, ref) : q.y = ref.y THEN ref.y ELSE ref.y + 1

C10_Example ==
    (b_release = Date(2020, 5, 1) /\ b_today = Date(2024, 6, 1)) => b_next = Date(2025, 5, 1)

\* C10, as stated: for every release date and reference date next_birthday
\* returns the earliest date on or after the reference date that carries the
\* release's month and day, in the reference year or the year after.
C10_AlwaysEarliestAnniversary ==
    bpc = "done" => IsEarliest(b_next, b_release, b_today) /\ C10_Example

\* C10, amended: next_birthday returns that date whenever datetime.date has
\* one, and raises ValueError when it has none (the reference date lies in
\* year 9999, after that year's anniversary).
C10_EarliestAnniversaryWhenOneExists ==
    bpc = "done" =>
        IF Anniversaries(b_release, b_today) # {}
        THEN IsEarliest(b_next, b_release, b_today) /\ C10_Example
        ELSE b_next = ValueError /\ b_today.y = MAXYEAR

C10_Witness ==
    /\ bpc = "done"
    /\ b_release = Date(2020, 5, 1) /\ b_today = Date(2024, 6, 1)
    /\ b_next = Date(2025, 5, 1)

LeapDay(d) == d.m = 2 /\ d.d = 29

\* what the leap-day rule gives for one year
LeapDayIn(year) == Date(year, 2, IF IsLeap(year) THEN 29 ELSE 28)

C11_Substitutions(upTo) ==
    \A k \in 1..Len(b_years) :
        b_years[k].year <= upTo => b_years[k].got = LeapDayIn(b_years[k].year)

\* C11, as stated: for a release date of February 29 the computation never
\* raises, and every year it substitutes gives February 29 in a leap year and
\* February 28 otherwise.
C11_LeapDayNeverRaises ==
    (bpc = "done" /\ LeapDay(b_release)) =>
        /\ b_next # ValueError
        /\ C11_Substitutions(MAXYEAR + 1)

\* C11, amended: that holds for every substituted year up to 9999; the
\* computation raises ValueError exactly when it substitutes year 10000 (the
\* reference date lies in year 9999, after February 28).
C11_LeapDayRaisesOnlyPastMaxYear ==
    (bpc = "done" /\ LeapDay(b_release)) =>
        /\ C11_Substitutions(MAXYEAR)
        /\ b_next = ValueError <=> b_years[Len(b_years)].year > MAXYEAR
        /\ b_next # ValueError => b_next = b_years[Len(b_years)].got

C11_Witness ==
    /\ bpc = "done" /\ LeapDay(b_release)
    /\ b_today = Date(2023, 3, 1)
    /\ Len(b_years) = 2
    /\ b_years[1].got = Date(2023, 2, 28)
    /\ b_years[2].got = Date(2024, 2, 29)
    /\ b_next = Date(2024, 2, 29)

-----------------------------------------------------------------------------
(* bot/birthdays.py: calculate_upcoming_birthdays *)

\* a < b on str: the first differing character decides, a proper prefix is smaller
StrLt(a, b) ==
    \E k \in 1..Len(b) :
        /\ k - 1 <= Len(a)
        /\ \A j \in 1..(k - 1) : a[j] = b[j]
        /\ (k = Len(a) + 1 \/ ord(a[k]) < ord(b[k]))

\* days from 0001-01-01 up to the year, the month and the date (date.toordinal)
DaysBeforeYear(y) == (y - 1) * 365 + (y - 1) \div 4 - (y - 1) \div 100 + (y - 1) \div 400

RECURSIVE DaysBeforeMonth(_, _)
DaysBeforeMonth(y, m) ==
    IF m = 1 THEN 0 ELSE DaysBeforeMonth(y, m - 1) + DaysInMonth(y, m - 1)

Ordinal(d) == DaysBeforeYear(d.y) + DaysBeforeMonth(d.y, d.m) + d.d

\* (a - b).days
DaysBetween(a, b) == Ordinal(a) - Ordinal(b)

NameAlbum == <<"A","l","b","u","m">>
NameAlbumLower == <<"a","l","b","u","m">>
NameFar == <<"F","a","r">>
NameLeap == <<"L","e","a","p">>
NameZeta == <<"Z","e","t","a">>
NameArtist == <<"A","r","t","i","s","t">>
NameArtistLower == <<"a","r","t","i","s","t">>

\* the albums a call may be given: the two of tests/test_birthdays.py:15-18,
\* albums that tie with the first on the day and differ in the case of a name,
\* one without a date, a leap-day release and one 15 days after the test's today
UpcomingChoices ==
    { Album(NameAlbum, NameArtist, Date(2020, 6, 10), None),
      Album(NameFar, NameArtist, Date(2010, 12, 31), None),
      Album(NameAlbumLower, NameArtist, Date(2019, 6, 10), None),
      Album(NameZeta, NameArtistLower, Date(2018, 6, 10), None),
      Album(NameAlbum, NameArtist, None, None),
      Album(NameLeap, NameArtist, Date(2020, 2, 29), None),
      Album(NameZeta, NameArtist, Date(2019, 6, 16), None) }

UpcomingTodays == {Date(2024, 6, 1), Date(2023, 2, 20), Date(MAXYEAR, 6, 11)}
Horizons == {9, 15, 30}

UpcomingBirthday(album, next_date, age, days_until, pos) ==
    [album |-> album, next_date |-> next_date, age |-> age, days_until |-> days_until,
     pos |-> pos]

\* BeyondHorizon leaving out the day of the horizon itself
BeyondHorizonOrAt(days_until, within_days) == days_until >= within_days

\* birthdays.py:47: days_until > within_days
BeyondHorizon(days_until, within_days) == days_until > within_days

\* SortKey without the names
SortKeyDaysOnly(item) == <<item.days_until, <<>>, <<>>>>

\* birthdays.py:52: the sort key
SortKey(item) == <<item.days_until, item.album.artist, item.album.album>>

\* x < y on the key tuples
KeyLt(x, y) ==
    \/ x[1] < y[1]
    \/ x[1] = y[1] /\ StrLt(x[2], y[2])
    \/ x[1] = y[1] /\ x[2] = y[2] /\ StrLt(x[3], y[3])

\* list.sort(key=...): the item goes behind every item whose key is not greater
InsertByKey(sorted, item) ==
    LET n == Cardinality({k \in 1..Len(sorted) : ~KeyLt(SortKey(item), SortKey(sorted[k]))})
    IN  SubSeq(sorted, 1, n) \o <<item>> \o SubSeq(sorted, n + 1, Len(sorted))

RECURSIVE SortByKey(_, _)
SortByKey(items, n) ==
    IF n = 0 THEN <<>> ELSE InsertByKey(SortByKey(items, n - 1), items[n])

u_album == u_albums[u_index]
u_next_day == next_birthday(u_album.release_date, u_today)

UpcomingStart ==
    /\ upc = "loop"
    /\ u_albums \in UNION {[1..n -> UpcomingChoices] : n \in 0..MaxUpcoming}
    /\ u_today \in UpcomingTodays
    /\ u_within \in Horizons
    /\ u_index = 1
    /\ upcoming = <<>>

\* birthdays.py:43-44: an album without a release date
UpcomingSkipUndated ==
    /\ upc = "loop" /\ u_index <= Len(u_albums)
    /\ u_album.release_date = None
    /\ u_index' = u_index + 1
    /\ UNCHANGED <<upc, u_albums, u_today, u_within, upcoming>>
    /\ UNCHANGED notUpcoming

\* birthdays.py:45: next_birthday raises, which leaves the call
UpcomingRaise ==
    /\ upc = "loop" /\ u_index <= Len(u_albums)
    /\ u_album.release_date # None
    /\ u_next_day = ValueError
    /\ upc' = "raised"
    /\ UNCHANGED <<u_albums, u_today, u_within, u_index, upcoming>>
    /\ UNCHANGED notUpcoming

\* birthdays.py:45-48: an anniversary beyond the horizon
UpcomingSkipFar ==
    /\ upc = "loop" /\ u_index <= Len(u_albums)
    /\ u_album.release_date # None
    /\ u_next_day # ValueError
    /\ BeyondHorizon(DaysBetween(u_next_day, u_today), u_within)
    /\ u_index' = u_index + 1
    /\ UNCHANGED <<upc, u_albums, u_today, u_within, upcoming>>
    /\ UNCHANGED notUpcoming

\* birthdays.py:45-51: an anniversary within the horizon
UpcomingAppend ==
    /\ upc = "loop" /\ u_index <= Len(u_albums)
    /\ u_album.release_date # None
    /\ u_next_day # ValueError
    /\ ~BeyondHorizon(DaysBetween(u_next_day, u_today), u_within)
    /\ upcoming' = Append(upcoming,
            UpcomingBirthday(u_album, u_next_day, u_next_day.y - u_album.release_date.y,
                             DaysBetween(u_next_day, u_today), u_index))
    /\ u_index' = u_index + 1
    /\ UNCHANGED <<upc, u_albums, u_today, u_within>>
    /\ UNCHANGED notUpcoming

\* birthdays.py:52-53: the list is sorted and returned
UpcomingReturn ==
    /\ upc = "loop" /\ u_index > Len(u_albums)
    /\ upcoming' = SortByKey(upcoming, Len(upcoming))
    /\ upc' = "done"
    /\ UNCHANGED <<u_albums, u_today, u_within, u_index>>
    /\ UNCHANGED notUpcoming

UpcomingInit == UpcomingStart /\ AggIdle /\ EnrichIdle /\ BdayIdle /\ ExportIdle /\ FilterIdle /\ TwiceIdle /\ ParseIdle /\ NotifyIdle /\ SaveIdle /\ LookupIdle /\ PagingIdle /\ ThreadsIdle

UpcomingNext ==
    \/ UpcomingSkipUndated
    \/ UpcomingRaise
    \/ UpcomingSkipFar
    \/ UpcomingAppend
    \/ UpcomingReturn

SpecUpcoming == UpcomingInit /\ [][UpcomingNext]_vars

-----------------------------------------------------------------------------
(* Properties of calculate_upcoming_birthdays *)

\* the positions of the input albums that have a release date and an
\* anniversary within the horizon
Due ==
    {i \in 1..Len(u_albums) :
        /\ u_albums[i].release_date # None
        /\ DaysBetween(next_birthday(u_albums[i].release_date, u_today), u_today) <= u_within}

\* C12: the call returns one event for each input album that has a
\* release_date and whose days_until = (next_date - today).days is at most the
\* horizon, and for no other; days_until is never negative, and an anniversary
\* exactly at the horizon is returned.
C12_ExactlyTheDueAlbums ==
    upc = "done" =>
        /\ {upcoming[k].pos : k \in 1..Len(upcoming)} = Due
        /\ Len(upcoming) = Cardinality(Due)
        /\ \A k \in 1..Len(upcoming) :
              /\ upcoming[k].album = u_albums[upcoming[k].pos]
              /\ upcoming[k].days_until = DaysBetween(upcoming[k].next_date, u_today)
              /\ upcoming[k].days_until >= 0
              /\ upcoming[k].days_until <= u_within

C12_Witness ==
    /\ upc = "done" /\ Len(u_albums) = 2 /\ Len(upcoming) = 1
    /\ upcoming[1].days_until = u_within
    /\ \A i \in 1..2 : u_albums[i].release_date # None

\* C13: the returned events are ordered by days_until, then artist, then
\* album: no event has a smaller triple than the event before it.
C13_OrderedByDaysArtistAlbum ==
    upc = "done" =>
        \A k \in 1..(Len(upcoming) - 1) :
            ~KeyLt(<<upcoming[k + 1].days_until, upcoming[k + 1].album.artist,
                     upcoming[k + 1].album.album>>,
                   <<upcoming[k].days_until, upcoming[k].album.artist,
                     upcoming[k].album.album>>)

C13_Witness ==
    /\ upc = "done" /\ Len(upcoming) = 2
    /\ upcoming[1].days_until = upcoming[2].days_until
    /\ upcoming[1].album.artist = upcoming[2].album.artist
    /\ upcoming[1].album.album # upcoming[2].album.album
    /\ upcoming[1].pos > upcoming[2].pos

-----------------------------------------------------------------------------
(* album_analyzer/models.py and exporter.py: to_dict, from_dict, export_albums, load_albums *)

\* a JSON number that holds the float v
JNum(v) == [t |-> "num", v |-> v]

\* a + b for two bit strings, the shorter one padded in front
AddPadded(a, b) ==
    LET n == IF Len(a) >= Len(b) THEN Len(a) ELSE Len(b)
    IN  AddBits(Zeros(n - Len(a)) \o a, Zeros(n - Len(b)) \o b)

\* m * bits for a natural m >= 1, as bits
RECURSIVE TimesNat(_, _)
TimesNat(bits, m) ==
    IF m = 1 THEN bits
    ELSE With(Append(TimesNat(bits, m \div 2), 0), LAMBDA even :
             IF m % 2 = 1 THEN AddPadded(even, bits) ELSE even)

\* 100 * |x| as it is exactly: the whole part, whether the first binary digit
\* after the point is 1, and whether a later one is
HundredthsOf(x) ==
    LET b == TimesNat(x.bits, 100)
        k == -x.exp
        all == IF k > Len(b) THEN Zeros(k - Len(b)) \o b ELSE b
        frac == IF k <= 0 THEN <<>> ELSE SubSeq(all, Len(all) - k + 1, Len(all))
    IN  [whole |-> IF k <= 0 THEN NatOfBits(b \o Zeros(-k))
                   ELSE NatOfBits(SubSeq(all, 1, Len(all) - k)),
         half |-> frac # <<>> /\ frac[1] = 1,
         rest |-> \E j \in 2..Len(frac) : frac[j] = 1]

\* the float of h hundredths with the sign of x
FloatOfHundredths(h, x) ==
    IF h = 0 THEN DZero ELSE [DoubleOf(h, 100) EXCEPT !.neg = x.neg]

\* Round2 cutting off the digits after the second
Round2Down(x) ==
    IF x = DZero THEN DZero ELSE FloatOfHundredths(HundredthsOf(x).whole, x)

\* models.py:23: round(minutes, 2).  float.__round__ takes the exact value of
\* the float to the nearest hundredth, a tie going to the even digit, and gives
\* the float nearest to that decimal number
Round2(x) ==
    IF x = DZero THEN DZero
    ELSE LET p == HundredthsOf(x)
         IN  FloatOfHundredths(IF p.half /\ (p.rest \/ p.whole % 2 = 1)
                               THEN p.whole + 1 ELSE p.whole, x)

\* str(n) padded with zeros to the given width
RECURSIVE Padded(_, _)
Padded(n, width) ==
    IF width = 0 THEN <<>>
    ELSE Padded(n \div 10, width - 1) \o <<Digits[(n % 10) + 1]>>

\* models.py:24: date.isoformat()
isoformat(d) == Padded(d.y, 4) \o <<"-">> \o Padded(d.m, 2) \o <<"-">> \o Padded(d.d, 2)

RECURSIVE NumberOf(_)
NumberOf(ds) ==
    IF ds = <<>> THEN 0 ELSE 10 * NumberOf(SubSeq(ds, 1, Len(ds) - 1)) + DigitValue(ds[Len(ds)])

AllDigits(ds) == \A i \in 1..Len(ds) : IsDigit(ds[i])

\* the number of bytes of a character and of a str in UTF-8
Utf8Len(c) ==
    LET n == ord(c)
    IN  IF n < 128 THEN 1 ELSE IF n < 2048 THEN 2 ELSE IF n < 65536 THEN 3 ELSE 4

RECURSIVE ByteLen(_)
ByteLen(str) == IF str = <<>> THEN 0 ELSE Utf8Len(Head(str)) + ByteLen(Tail(str))

\* the ordinal of the Monday that starts ISO week 1 of year y
iso_week1_monday(y) ==
    LET first_day == Ordinal(Date(y, 1, 1))
        first_weekday == (first_day + 6) % 7
        week1_monday == first_day - first_weekday
    IN  IF first_weekday > 3 THEN week1_monday + 7 ELSE week1_monday

\* whether year y has an ISO week 53: it starts on a Thursday, or it is a leap
\* year that starts on a Wednesday
HasWeek53(y) ==
    LET first_weekday == (Ordinal(Date(y, 1, 1)) + 6) % 7
    IN  first_weekday = 3 \/ (first_weekday = 2 /\ IsLeap(y))

\* the date of an ordinal that lies in year y - 1, y or y + 1
ord_to_ymd(n, y) ==
    LET year == CHOOSE k \in {y - 1, y, y + 1} :
                    DaysBeforeYear(k) < n /\ n <= DaysBeforeYear(k + 1)
        month == CHOOSE m \in 1..12 :
                    /\ DaysBeforeMonth(year, m) < n - DaysBeforeYear(year)
                    /\ n - DaysBeforeYear(year) <= DaysBeforeMonth(year, m) + DaysInMonth(year, m)
    IN  Date(year, month, n - DaysBeforeYear(year) - DaysBeforeMonth(year, month))

\* the date of day iso_day of week iso_week of ISO year y, or ValueError; no
\* day of ISO year 0 lies after 0000-12-31
iso_to_ymd(y, iso_week, iso_day) ==
    LET n == iso_week1_monday(y) + (iso_week - 1) * 7 + iso_day - 1
    IN  IF \/ y < 1
           \/ iso_week <= 0 \/ iso_week > 53 \/ (iso_week = 53 /\ ~HasWeek53(y))
           \/ iso_day <= 0 \/ iso_day >= 8
           \/ n > Ordinal(Date(MAXYEAR, 12, 31))
        THEN ValueError
        ELSE ord_to_ymd(n, y)

\* models.py:33: date.fromisoformat, which reads the str as UTF-8 bytes: a
\* str of 7, 8 or 10 bytes that starts with YYYY-MM-DD, YYYYMMDD, YYYY-Www,
\* YYYYWww, YYYY-Www-D or YYYYWwwD; whatever follows these is not looked at,
\* and every other str is a ValueError
fromisoformat(str) ==
    LET len == ByteLen(str)
        At(i) == IF i <= Len(str) THEN str[i] ELSE "<U+0000>"
        DigitsAt(i, n) == \A k \in i..(i + n - 1) : IsDigit(At(k))
        NumberAt(i, n) == NumberOf(SubSeq(str, i, i + n - 1))
        uses_separator == At(5) = "-"
        p == IF uses_separator THEN 6 ELSE 5
        \* after the week number
        q == p + 3
        day_at == IF uses_separator THEN q + 1 ELSE q
    IN  IF len \notin {7, 8, 10} \/ ~DigitsAt(1, 4) THEN ValueError
        ELSE IF At(p) = "W"
        THEN IF ~DigitsAt(p + 1, 2) THEN ValueError
             ELSE IF q - 1 < len
             THEN IF (uses_separator /\ At(q) # "-") \/ ~IsDigit(At(day_at)) THEN ValueError
                  ELSE iso_to_ymd(NumberAt(1, 4), NumberAt(p + 1, 2), NumberAt(day_at, 1))
             ELSE iso_to_ymd(NumberAt(1, 4), NumberAt(p + 1, 2), 1)
        ELSE IF /\ DigitsAt(p, 2)
                /\ ~(uses_separator /\ At(p + 2) # "-")
                /\ DigitsAt(IF uses_separator THEN p + 3 ELSE p + 2, 2)
        THEN LET y == NumberAt(1, 4)
                 m == NumberAt(p, 2)
                 d == NumberAt(IF uses_separator THEN p + 3 ELSE p + 2, 2)
             IN  IF ValidDate(y, m, d) THEN Date(y, m, d) ELSE ValueError
        ELSE ValueError

\* sorted(tracks): the names in ascending order
RECURSIVE SortedNames(_)
SortedNames(names) ==
    IF names = {} THEN <<>>
    ELSE LET least == CHOOSE a \in names : \A b \in names : ~StrLt(b, a)
         IN  <<least>> \o SortedNames(names \ {least})

\* models.py:19-27
to_dict(self) ==
    [album |-> JStr(self.album),
     artist |-> JStr(self.artist),
     minutes_listened |-> JNum(Round2(self.minutes)),
     release_date |-> IF self.release_date # None THEN JStr(isoformat(self.release_date))
                      ELSE None,
     musicbrainz_id |-> self.musicbrainz_id,
     tracks |-> [k \in 1..Cardinality(self.tracks) |-> JStr(SortedNames(self.tracks)[k])]]

\* models.py:29-43: the AlbumListening, or the ValueError of date.fromisoformat
from_dict(data) ==
    LET release_date == IF Truthy(data.release_date)
                        THEN fromisoformat(data.release_date.s) ELSE None
    IN  IF release_date = ValueError THEN ValueError
        ELSE [album |-> data.album.s,
              artist |-> data.artist.s,
              minutes |-> data.minutes_listened.v,
              release_date |-> release_date,
              musicbrainz_id |-> data.musicbrainz_id,
              tracks |-> {data.tracks[k].s : k \in 1..Len(data.tracks)}]

\* storage.py:22-28 and 31-35: what load_user_albums reads once
\* save_user_albums has written albums: every album through to_dict, which
\* rounds the minutes to two decimals, and back through from_dict
SavedAlbums(albums) == [k \in 1..Len(albums) |-> from_dict(to_dict(albums[k]))]

\* exporter.py:11-15
_build_payload(albums, now) ==
    [generated_at |-> now, albums |-> [k \in 1..Len(albums) |-> to_dict(albums[k])]]

\* what datetime.now(timezone.utc).isoformat() may give
Clock == {"2024-06-01T00:00:00+00:00", "2024-06-02T12:30:00+00:00"}

Listened(album, artist, minutes, release_date, musicbrainz_id, tracks) ==
    [album |-> album, artist |-> artist, minutes |-> minutes, release_date |-> release_date,
     musicbrainz_id |-> musicbrainz_id, tracks |-> tracks]

\* the albums an export may be given: the one of tests/test_exporter.py:10-12,
\* minutes with more than two decimals (0.125 and 0.375 lie halfway between two
\* hundredths, the float of 1.015 lies below the middle), dates with one-digit
\* parts and a three-digit year, track sets
ExportChoices ==
    { Listened(NameAlbum, NameArtist, DoubleOf(1234, 10), Date(2020, 5, 1), None, {}),
      Listened(NameFar, NameArtist, DoubleOf(1, 8), None, IdPinkerton, {StrTrackTwo, StrTrackOne}),
      Listened(NameLeap, NameArtistLower, DoubleOf(3, 8), Date(2020, 2, 29), None, {StrTrackOne}),
      Listened(NameZeta, NameArtist, DoubleOf(2, 3), Date(999, 12, 31), JStr(IdStored), {}),
      Listened(StrBlank, <<>>, DoubleOf(1015, 1000), Date(2021, 10, 9), None, {<<>>, StrTrackTwo}),
      Listened(NameAlbum, NameArtist, DoubleOf(6, 1), None, None, {}) }

ExportStart ==
    /\ xpc = "export"
    /\ x_albums \in UNION {[1..n -> ExportChoices] : n \in 0..MaxExported}
    /\ x_file = None
    /\ x_loaded = <<>>

\* exporter.py:25-26: export_albums; the document is written at time now
ExportAlbums(now) ==
    /\ xpc = "export"
    /\ x_file' = _build_payload(x_albums, now)
    /\ xpc' = "load"
    /\ UNCHANGED <<x_albums, x_loaded>>
    /\ UNCHANGED notExport

\* exporter.py:29-31: load_albums of the file just written
LoadAlbums ==
    /\ xpc = "load"
    /\ LET entries == [k \in 1..Len(x_file.albums) |-> from_dict(x_file.albums[k])]
       IN  IF \E k \in 1..Len(entries) : entries[k] = ValueError
           THEN x_loaded' = ValueError /\ xpc' = "raised"
           ELSE x_loaded' = entries /\ xpc' = "done"
    /\ UNCHANGED <<x_albums, x_file>>
    /\ UNCHANGED notExport

ExportInit == ExportStart /\ AggIdle /\ EnrichIdle /\ BdayIdle /\ UpcomingIdle /\ FilterIdle /\ TwiceIdle /\ ParseIdle /\ NotifyIdle /\ SaveIdle /\ LookupIdle /\ PagingIdle /\ ThreadsIdle

ExportNext ==
    \/ \E now \in Clock : ExportAlbums(now)
    \/ LoadAlbums

SpecExport == ExportInit /\ [][ExportNext]_vars

-----------------------------------------------------------------------------
(* Properties of the export and the load *)

\* how two bit strings without leading zeros compare as numbers: -1, 0 or 1
CompareBits(a, b) ==
    IF Len(a) # Len(b) THEN (IF Len(a) < Len(b) THEN -1 ELSE 1)
    ELSE IF a = b THEN 0
    ELSE LET k == CHOOSE i \in 1..Len(a) : a[i] # b[i] /\ \A j \in 1..(i - 1) : a[j] = b[j]
         IN  IF a[k] < b[k] THEN -1 ELSE 1

\* how the exact value of the float x >= 0 compares with n / d (n >= 0, d > 0)
CompareExact(x, n, d) ==
    IF x = DZero THEN (IF n = 0 THEN 0 ELSE -1)
    ELSE IF n = 0 THEN 1
    ELSE LET xd == TimesNat(x.bits, d)
         IN  IF x.exp >= 0 THEN CompareBits(xd \o Zeros(x.exp), BitsOfNat(n))
             ELSE CompareBits(xd, BitsOfNat(n) \o Zeros(-x.exp))

\* the whole number of hundredths nearest to the float y >= 0
NearestHundredth(y) ==
    IF y = DZero THEN 0
    ELSE HundredthsOf(y).whole + (IF HundredthsOf(y).half THEN 1 ELSE 0)

\* m is orig rounded to two decimals: the float of a whole number q of
\* hundredths, where q/100 is nearest to what orig is exactly and q is even
\* when two are equally near
IsRoundedTo2(m, orig) ==
    LET q == NearestHundredth(m)
    IN  /\ m = DoubleOf(q, 100)
        /\ CompareExact(orig, 2 * q + 1, 200) <= 0
        /\ q > 0 => CompareExact(orig, 2 * q - 1, 200) >= 0
        /\ CompareExact(orig, 2 * q + 1, 200) = 0 => q % 2 = 0
        /\ (q > 0 /\ CompareExact(orig, 2 * q - 1, 200) = 0) => q % 2 = 0

\* C14: loading what was exported gives as many entries in the same order,
\* each with the album, artist, release_date, musicbrainz_id and track set of
\* the original and with its minutes rounded to 2 decimals.
C14_ExportLoadRoundTrip ==
    xpc \in {"done", "raised"} =>
        /\ xpc = "done"
        /\ Len(x_loaded) = Len(x_albums)
        /\ \A k \in 1..Len(x_albums) :
              /\ x_loaded[k].album = x_albums[k].album
              /\ x_loaded[k].artist = x_albums[k].artist
              /\ x_loaded[k].release_date = x_albums[k].release_date
              /\ x_loaded[k].musicbrainz_id = x_albums[k].musicbrainz_id
              /\ x_loaded[k].tracks = x_albums[k].tracks
              /\ IsRoundedTo2(x_loaded[k].minutes, x_albums[k].minutes)

C14_Witness ==
    /\ xpc = "done" /\ Len(x_loaded) = 2
    /\ x_albums[1].minutes = DoubleOf(2, 3) /\ x_loaded[1].minutes = DoubleOf(67, 100)
    /\ x_loaded[1].release_date = Date(999, 12, 31)
    /\ x_loaded[2].tracks = {StrTrackOne, StrTrackTwo}
    /\ x_loaded[2].minutes = DoubleOf(12, 100)

-----------------------------------------------------------------------------
(* Further properties of the aggregator *)

Accepted == {j \in 1..Len(seen) : ~ElemRejected(seen[j].e)}

\* the position in the input of the first accepted record of key, 0 if none
FirstSeen(key) ==
    LET of == {j \in Accepted : ElemKey(seen[j].e) = key}
    IN  IF of = {} THEN 0 ELSE CHOOSE j \in of : \A i \in of : j <= i

\* C15: the result is ordered by minutes descending, and entries with equal
\* minutes stand in the order in which their (album, artist) key was first
\* met in the input.
C15_DescendingThenFirstSeen ==
    apc = "done" =>
        \A k \in 1..(Len(result) - 1) :
            /\ DoubleLe(result[k + 1].minutes, result[k].minutes)
            /\ result[k + 1].minutes = result[k].minutes =>
                  FirstSeen(<<result[k].album, result[k].artist>>)
                     < FirstSeen(<<result[k + 1].album, result[k + 1].artist>>)

C15_Witness ==
    /\ apc = "done" /\ Len(result) = 2
    /\ result[1].minutes = result[2].minutes
    /\ result[1].album = StrOther /\ result[2].album = StrAlbum


\* a str that is not empty and has no whitespace at either end
NonEmptyTrimmed(str) ==
    /\ str # <<>>
    /\ str[1] \notin Whitespace
    /\ str[Len(str)] \notin Whitespace

\* C18: every AlbumListening that aggregate_archives produces has an album
\* and an artist that are non-empty strings without leading or trailing
\* whitespace, and its tracks hold only non-empty names, whatever the records
\* (also when the album or the artist of a record is only whitespace).
C18_NamesNonEmptyAndTrimmed ==
    apc = "done" =>
        \A k \in 1..Len(result) :
            /\ NonEmptyTrimmed(result[k].album)
            /\ NonEmptyTrimmed(result[k].artist)
            /\ <<>> \notin result[k].tracks

\* the positions in the path list of the paths opened so far whose suffix is
\* neither .json nor .zip in any letter case
Unsupported ==
    {k \in 1..Len(pathLog) : StrLower(pathLog[k]) \notin {SufJson, SufZip}}

\* C20: when a path given to aggregate_archives has an extension other than
\* .json or .zip (in any letter case), the call fails with an error that names
\* that path and returns no album list, also when earlier paths of the call
\* were valid and already read; a path with a supported extension never
\* fails that way.
C20_UnsupportedPathFailsTheCall ==
    /\ \A k \in Unsupported :
          /\ apc = "failed"
          /\ aerror = [t |-> "ValueError", path |-> k]
          /\ result = <<>>
          /\ k = Len(pathLog)
    /\ (aerror # None /\ aerror.t = "ValueError") => aerror.path \in Unsupported
    /\ apc = "done" => Unsupported = {}

\* a call that read a record of a .json path and then met a .txt path
C20_Witness ==
    /\ Len(pathLog) = 2
    /\ pathLog[1] = SufJson /\ pathLog[2] = SufTxt
    /\ totals # <<>>
    /\ apc = "failed" /\ aerror = [t |-> "ValueError", path |-> 2]
    /\ result = <<>>

\* the ZIP entries met so far that match the history names and hold no
\* parsable JSON
BadEntries ==
    {i \in 1..Len(entryLog) :
        /\ NamedAsHistory(entryLog[i].name)
        /\ entryLog[i].kind \in {"bad", "undecodable"}}

\* C21: when one matching entry of a ZIP archive holds unparsable JSON, that
\* entry contributes no records and the reader goes on: every other matching
\* entry of the same archive, before and after the bad one, is still read, and
\* no error reaches the caller.
C21_BadEntryDoesNotStopTheArchive ==
    \A i \in BadEntries :
        /\ ~(apc = "failed" /\ aerror # None /\ aerror.path = entryLog[i].path)
        /\ \A j \in 1..Len(entryLog) :
              (/\ j # i
               /\ entryLog[j].path = entryLog[i].path
               /\ NamedAsHistory(entryLog[j].name)) => entryLog[j].opened

-----------------------------------------------------------------------------
(* Further properties of lookup_release *)

\* the lookup_release calls that tried at least one variant, returned, and
\* found no date with any of them
UndatedCalls ==
    {k \in 1..Len(calls) :
        /\ calls[k].outcome = "returned"
        /\ calls[k].tried # <<>>
        /\ \A v \in 1..Len(calls[k].tried) : calls[k].tried[v].found.date = None}

\* the key of the title and the artist the call was given
OriginalKey(c) == <<StrLower(input[c.idx].album), StrLower(input[c.idx].artist)>>

\* C19: when no title variant yields a date, lookup_release returns the
\* result obtained for the first variant, whatever the later variants
\* returned, and that value is cached under the original key.
C19_UndatedLookupGivesFirstResult ==
    \A k \in UndatedCalls :
        /\ calls[k].returned = calls[k].tried[1].found
        /\ OriginalKey(calls[k]) \in DOMAIN cache
        /\ OriginalKey(calls[k]) \in DOMAIN cache =>
              cache[OriginalKey(calls[k])] = calls[k].tried[1].found

\* a lookup of a padded title, whose key no variant shares, that tried two
\* variants and found no date
C19_Witness ==
    \E k \in UndatedCalls :
        /\ Len(calls[k].tried) = 2
        /\ calls[k].tried[1].via = "query" /\ calls[k].tried[2].via = "query"
        /\ input[calls[k].idx].album = TitlePadded
        /\ cache[OriginalKey(calls[k])] = NoResult

-----------------------------------------------------------------------------
(* filter_by_minutes (album_analyzer/parser.py:103-104) *)

\* the condition of the comprehension with > for >=
KeepsAbove(album, minimum_minutes) == DoubleLt(minimum_minutes, album.minutes)
\* parser.py:104: album.minutes >= minimum_minutes
Keeps(album, minimum_minutes) == DoubleLe(minimum_minutes, album.minutes)

\* parser.py:104: [album for album in albums if album.minutes >= minimum_minutes]
RECURSIVE filter_by_minutes(_, _)
filter_by_minutes(albums, minimum_minutes) ==
    IF albums = <<>> THEN <<>>
    ELSE IF Keeps(Head(albums), minimum_minutes)
         THEN <<Head(albums)>> \o filter_by_minutes(Tail(albums), minimum_minutes)
         ELSE filter_by_minutes(Tail(albums), minimum_minutes)

\* the albums a filter may be given: the two of tests/test_parser.py (6 minutes
\* and nothing listened), albums at, just under and above the thresholds
FilterChoices ==
    { Listened(NameAlbum, NameArtist, DoubleOf(6, 1), None, None, {StrTrackOne, StrTrackTwo}),
      Listened(NameZeta, NameArtist, DZero, None, None, {}),
      Listened(NameFar, NameArtist, DoubleOf(5, 1), Date(2020, 5, 1), None, {}),
      Listened(NameLeap, NameArtistLower, DoubleOf(499, 100), None, None, {}),
      Listened(NameAlbumLower, NameArtist, DoubleOf(60, 1), None, None, {}),
      Listened(NameAlbum, NameArtistLower, DoubleOf(1234, 10), None, None, {}) }

\* the thresholds: the one of tests/test_parser.py:19, the default of the
\* command line (cli.py:19), zero, and one with a fraction
Thresholds == {DoubleOf(5, 1), DoubleOf(60, 1), DZero, DoubleOf(499, 100)}

FilterStart ==
    /\ fpc = "call"
    /\ f_albums \in UNION {[1..n -> FilterChoices] : n \in 0..MaxFiltered}
    /\ f_minimum \in Thresholds
    /\ f_result = <<>>

\* parser.py:103-104: one call of filter_by_minutes
FilterByMinutes ==
    /\ fpc = "call"
    /\ f_result' = filter_by_minutes(f_albums, f_minimum)
    /\ fpc' = "done"
    /\ UNCHANGED <<f_albums, f_minimum>>
    /\ UNCHANGED notFilter

FilterInit == FilterStart /\ AggIdle /\ EnrichIdle /\ BdayIdle /\ UpcomingIdle /\ ExportIdle /\ TwiceIdle /\ ParseIdle /\ NotifyIdle /\ SaveIdle /\ LookupIdle /\ PagingIdle /\ ThreadsIdle

FilterNext == FilterByMinutes

SpecFilter == FilterInit /\ [][FilterNext]_vars

-----------------------------------------------------------------------------
(* Properties of filter_by_minutes *)

\* the positions of the input whose minutes reach the threshold
Reaching == {k \in 1..Len(f_albums) : ~DoubleLt(f_albums[k].minutes, f_minimum)}

\* the i-th of these positions, counted from the start of the input
NthReaching(i) == CHOOSE k \in Reaching : Cardinality({j \in Reaching : j <= k}) = i

\* C16: filter_by_minutes returns exactly the input albums whose minutes are
\* at least the threshold (an album at the threshold is kept), in their input
\* order, and every album it returns has minutes at least the threshold.
C16_KeepsExactlyThoseReachingThreshold ==
    fpc = "done" =>
        /\ Len(f_result) = Cardinality(Reaching)
        /\ \A i \in 1..Len(f_result) :
              /\ i <= Cardinality(Reaching) => f_result[i] = f_albums[NthReaching(i)]
              /\ ~DoubleLt(f_result[i].minutes, f_minimum)

\* a call that keeps an album at the threshold after dropping one below it
C16_Witness ==
    /\ fpc = "done"
    /\ Len(f_albums) = 2 /\ Len(f_result) = 1
    /\ DoubleLt(f_albums[1].minutes, f_minimum)
    /\ f_albums[2].minutes = f_minimum
    /\ f_result[1] = f_albums[2]


-----------------------------------------------------------------------------
(* aggregate_archives on one JSON archive given once and given twice          *)
(* (album_analyzer/parser.py:85-100)                                          *)

\* two plays of one album whose minutes are not binary fractions
RecPlayLong == JObj([album |-> JStr(StrOther), artist |-> JStr(StrArtist),
                     track |-> JStr(StrTrackOne), ms_played |-> JInt(151930)])
RecPlayShort == JObj([album |-> JStr(StrOther), artist |-> JStr(StrArtist),
                      track |-> JStr(StrTrackTwo), ms_played |-> JInt(11267)])

\* the elements the archive may hold
Plays == {RecExtended, RecLegacy, RecPadded, RecZeroPlay, RecPlayLong, RecPlayShort, JArr(<<>>)}

\* parser.py:89-98: the loop over elements, in order, begun with the totals
\* tot: the first half of the elements, then the second half from what the first
\* half left
RECURSIVE TotalsAfter(_, _)
TotalsAfter(tot, elements) ==
    LET n == Len(elements)
        e == elements[1]
    IN  IF n = 0 THEN tot
        ELSE IF n = 1 THEN (IF IsDict(e) THEN Accumulate(tot, e.f) ELSE tot)
        ELSE With(TotalsAfter(tot, SubSeq(elements, 1, n \div 2)),
                  LAMBDA half : TotalsAfter(half, SubSeq(elements, n \div 2 + 1, n)))

\* parser.py:87-98: totals = {} and the loop over the elements of the archives
TotalsOf(elements) == TotalsAfter(<<>>, elements)

\* parser.py:85-100: aggregate_archives over paths whose lists are given in order
AggregateLists(elements) == SortedByMinutes(TotalsOf(elements))

TwiceStart ==
    /\ tpc = "once"
    /\ t_records \in UNION {[1..n -> Plays] : n \in 0..MaxPlays}
    /\ t_once = <<>>
    /\ t_twice = <<>>

\* aggregate_archives([path])
AggregateOnce ==
    /\ tpc = "once"
    /\ t_once' = AggregateLists(t_records)
    /\ tpc' = "twice"
    /\ UNCHANGED <<t_records, t_twice>>
    /\ UNCHANGED notTwice

\* aggregate_archives([path, path])
AggregateTwice ==
    /\ tpc = "twice"
    /\ t_twice' = AggregateLists(t_records \o t_records)
    /\ tpc' = "done"
    /\ UNCHANGED <<t_records, t_once>>
    /\ UNCHANGED notTwice

TwiceInit == TwiceStart /\ AggIdle /\ EnrichIdle /\ BdayIdle /\ UpcomingIdle /\ ExportIdle /\ FilterIdle /\ ParseIdle /\ NotifyIdle /\ SaveIdle /\ LookupIdle /\ PagingIdle /\ ThreadsIdle

TwiceNext == AggregateOnce \/ AggregateTwice

SpecTwice == TwiceInit /\ [][TwiceNext]_vars


-----------------------------------------------------------------------------
(* Properties of aggregating one archive twice *)

KeysOf(albums) == {<<albums[k].album, albums[k].artist>> : k \in 1..Len(albums)}

EntryOf(albums, key) ==
    albums[CHOOSE k \in 1..Len(albums) : <<albums[k].album, albums[k].artist>> = key]

\* the counted records of the archive that belong to key
PlaysOf(key) ==
    {k \in 1..Len(t_records) : ~ElemRejected(t_records[k]) /\ ElemKey(t_records[k]) = key}

\* acc after the minutes of the counted records of key among records have
\* been added to it one by one, in the order of the archive, each += rounded
RECURSIVE PlaysAdded(_, _, _)
PlaysAdded(acc, key, records) ==
    IF records = <<>> THEN acc
    ELSE IF ~ElemRejected(Head(records)) /\ ElemKey(Head(records)) = key
    THEN PlaysAdded(DoubleAdd(acc, ElemFields(Head(records)).minutes), key, Tail(records))
    ELSE PlaysAdded(acc, key, Tail(records))

\* C17 as stated: aggregating the same archive twice in one run yields the
\* same set of (album, artist) entries as aggregating it once, each with
\* exactly double the minutes and with an identical track set.
C17_TwiceIsExactlyDouble ==
    tpc = "done" =>
        /\ KeysOf(t_twice) = KeysOf(t_once)
        /\ \A key \in KeysOf(t_once) \cap KeysOf(t_twice) :
              /\ EntryOf(t_twice, key).minutes = DoubleTwice(EntryOf(t_once, key).minutes)
              /\ EntryOf(t_twice, key).tracks = EntryOf(t_once, key).tracks

\* C17, amended: aggregating the same archive twice in one run yields the
\* same set of (album, artist) entries as aggregating it once, each with an
\* identical track set and with the minutes of the single run to which the
\* entry's counted contributions have been added once more, one by one in the
\* order of the archive and each addition rounded as a float; that is exactly
\* double when the archive holds a single counted record of the entry.
C17_TwiceAddsEachPlayAgain ==
    tpc = "done" =>
        /\ KeysOf(t_twice) = KeysOf(t_once)
        /\ \A key \in KeysOf(t_once) \cap KeysOf(t_twice) :
              /\ EntryOf(t_twice, key).minutes
                    = PlaysAdded(EntryOf(t_once, key).minutes, key, t_records)
              /\ Cardinality(PlaysOf(key)) = 1 =>
                    EntryOf(t_twice, key).minutes = DoubleTwice(EntryOf(t_once, key).minutes)
              /\ EntryOf(t_twice, key).tracks = EntryOf(t_once, key).tracks

\* an archive with two plays of one album: both runs give one entry with both
\* tracks, and the minutes of the second run are not the double of the first's
C17_Witness ==
    /\ tpc = "done"
    /\ Len(t_once) = 1 /\ Len(t_twice) = 1
    /\ Cardinality(PlaysOf(<<t_once[1].album, t_once[1].artist>>)) = 2
    /\ t_twice[1].tracks = {StrTrackOne, StrTrackTwo}
    /\ t_twice[1].minutes # DoubleTwice(t_once[1].minutes)


-----------------------------------------------------------------------------
(* _parse_release_date on its own (album_analyzer/release_date.py:31-44) *)

\* a text of n characters c
Repeated(c, n) == <<>> \o [k \in 1..n |-> c]

\* the text of the parts of a raw date: years, months and days that are
\* well formed, out of range, not numbers, empty, written as int() also
\* accepts them, beyond a C int, or of more digits than int() converts
YearParts == {<<"1","9","9","6">>, <<"2","0","2","4">>, <<"9","6">>, <<"0">>, <<"1","0","0","0","0">>, <<"2","1","4","7","4","8","3","6","4","7">>, <<"2","1","4","7","4","8","3","6","4","8">>, <<"a","b","c","d">>, <<>>, <<" ","1","9","9","6">>, <<"-","2","1","4","7","4","8","3","6","4","8">>, <<"-","2","1","4","7","4","8","3","6","4","9">>, <<"1","_","9","9","6">>, <<"+","1","9","9","6">>, Repeated("1", MaxStrDigits + 1), Repeated("0", MaxStrDigits - 1) \o <<"7">>}
MonthParts == {<<"0","9">>, <<"9">>, <<"1","3">>, <<"0","0">>, <<"0","2">>, <<"2">>, <<"x">>, <<"1","_","0">>, <<>>, <<"9","9","9","9","9","9","9","9","9","9","9">>}
DayParts == {<<"2","4">>, <<"2","9">>, <<"3","0">>, <<"3","1">>, <<"0">>, <<"1">>, <<>>, <<"3","x">>, <<"2","1","4","7","4","8","3","6","4","8">>, Repeated("9", MaxStrDigits + 1)}

Joined(a, b) == a \o <<"-">> \o b

\* what first-release-date may hold: no value, or a string of one to four parts
RawDates ==
    {None}
    \cup {JStr(y) : y \in YearParts}
    \cup {JStr(Joined(y, m)) : y \in YearParts, m \in MonthParts}
    \cup {JStr(Joined(Joined(y, m), d)) : y \in YearParts, m \in MonthParts, d \in DayParts}
    \cup {JStr(Joined(Joined(Joined(y, m), d), d)) : y \in {<<"1","9","9","6">>}, m \in {<<"0","9">>}, d \in DayParts}

ParseStart ==
    /\ rpc = "call"
    /\ r_raw \in RawDates
    /\ r_parsed = None

\* release_date.py:31-44: one call of _parse_release_date
ParseReleaseDate ==
    /\ rpc = "call"
    /\ r_parsed' = _parse_release_date(r_raw)
    /\ rpc' = "done"
    /\ UNCHANGED r_raw
    /\ UNCHANGED notParse

ParseInit == ParseStart /\ AggIdle /\ EnrichIdle /\ BdayIdle /\ UpcomingIdle /\ ExportIdle /\ FilterIdle /\ TwiceIdle /\ NotifyIdle /\ SaveIdle /\ LookupIdle /\ PagingIdle /\ ThreadsIdle

ParseNext == ParseReleaseDate

SpecParse == ParseInit /\ [][ParseNext]_vars


-----------------------------------------------------------------------------
(* Properties of _parse_release_date *)

\* a part written with one to most decimal digits and nothing else
PlainNumber(part, most) == part # <<>> /\ Len(part) <= most /\ AllDigits(part)

\* a part that is no number however it is read: empty, or holding a letter
NotNumeric(part) ==
    part = <<>> \/ \E k \in 1..Len(part) : IgnoreCase(part[k]) \in {LowerAlpha[j] : j \in 1..Len(LowerAlpha)}

\* C22: release-date parsing maps 'YYYY' to January 1 of that year, 'YYYY-MM'
\* to the first day of that month and 'YYYY-MM-DD' to that day; every other
\* string (empty, more than three parts, non-numeric parts, month outside
\* 1..12, day not valid for the month) yields no date, and the parsing never
\* raises.
C22_ParsesThreeFormsAndNeverRaises ==
    rpc = "done" =>
        /\ r_parsed # OverflowError
        /\ r_raw = None => r_parsed = None
        /\ r_raw # None =>
              LET parts == Split(r_raw.s, "-")
                  n == Len(parts)
                  y == NumberOf(parts[1])
                  m == IF n >= 2 THEN NumberOf(parts[2]) ELSE 1
                  d == IF n = 3 THEN NumberOf(parts[3]) ELSE 1
              IN  /\ (/\ n <= 3
                      /\ PlainNumber(parts[1], 4)
                      /\ \A k \in 2..n : PlainNumber(parts[k], 2))
                        => r_parsed = IF ValidDate(y, m, d) THEN Date(y, m, d) ELSE None
                  /\ (\/ r_raw.s = <<>>
                      \/ n > 3
                      \/ \E k \in 1..n : NotNumeric(parts[k]))
                        => r_parsed = None


\* the lookup_release calls that a transport error left
RaisedCalls == {k \in 1..Len(calls) : calls[k].outcome = "raised"}

\* the variant whose query failed in the call of album i
FailedVariants(i) ==
    {events[e].candidate : e \in {x \in 1..Len(events) :
        events[x].t = "query" /\ events[x].idx = i /\ ~events[x].ok}}

\* C26: a transport error on the query of any variant leaves lookup_release
\* with no cache entry under the original key (title.lower(), artist.lower());
\* a later call with that key is therefore not answered from the cache and
\* queries the failed variant again.
C26_TransportErrorLeavesNoEntry ==
    /\ (calls # <<>> /\ calls[Len(calls)].outcome = "raised") =>
           OriginalKey(calls[Len(calls)]) \notin DOMAIN cache
    /\ \A i \in RaisedCalls, j \in 1..Len(calls) :
           (i < j /\ calls[j].outcome # "running"
                  /\ OriginalKey(calls[i]) = OriginalKey(calls[j])) =>
               /\ ~(calls[j].outcome = "returned" /\ calls[j].tried = <<>>)
               /\ \A v \in FailedVariants(calls[i].idx) :
                      \E e \in 1..Len(events) :
                          /\ events[e].t = "query" /\ events[e].idx = calls[j].idx
                          /\ StrLower(events[e].candidate) = StrLower(v)

\* an id comes only with a date
IdOnlyWithDate(pair) == pair.id # None => pair.date # None

\* C27: every value of the cache and every pair that lookup_release returned
\* has an id only if it has a date.
C27_IdOnlyWithDate ==
    /\ \A key \in DOMAIN cache : IdOnlyWithDate(cache[key])
    /\ \A k \in 1..Len(calls) : calls[k].outcome = "returned" => IdOnlyWithDate(calls[k].returned)

\* a lookup that queried the catalog returned (None, None), the cache holds
\* that pair under the original key, and another entry has an id and a date
C27_Witness ==
    \E k \in 1..Len(calls) :
        /\ calls[k].outcome = "returned" /\ calls[k].returned = NoResult
        /\ OriginalKey(calls[k]) \in DOMAIN cache
        /\ \E e \in 1..Len(events) :
               /\ events[e].t = "query" /\ events[e].idx = calls[k].idx /\ events[e].ok
               /\ events[e].found = NoResult
        /\ cache[OriginalKey(calls[k])] = NoResult
        /\ \E key \in DOMAIN cache : cache[key].id # None /\ cache[key].date # None

-----------------------------------------------------------------------------
(* bot/main.py: send_daily_notifications, with bot/storage.py.  The two jobs  *)
(* of build_application (main.py:274-285) run it as coroutines of one event   *)
(* loop, which also runs the handlers: a run gives way only at                *)
(* `await _notify_user(...)`, to the other run or to handle_document, whose   *)
(* save_user_albums (main.py:125) replaces the user file of a chat.           *)

\* main.py:33
UPCOMING_NOTIFICATIONS == <<7, 1>>

\* the chats that write to the bot
Chats == {1, 2}

\* storage.py:38-45: iter_users gives the chats that have a user file, in
\* the order in which the directory lists the files, which is any order; the
\* directory is read as a whole when the loop of main.py:242 asks for the
\* first chat
iter_users(files) ==
    {order \in [1..Cardinality(files) -> files] :
        \A i, k \in 1..Cardinality(files) : i # k => order[i] # order[k]}

\* the initial check (run_once) and the daily check (run_daily)
Jobs == {1, 2}

\* str(n) for n >= 0
RECURSIVE StrOfInt(_)
StrOfInt(n) ==
    IF n < 10 THEN <<Digits[n + 1]>> ELSE StrOfInt(n \div 10) \o <<Digits[(n % 10) + 1]>>


\* the albums of the user files with their chats: anniversaries today,
\* tomorrow and in 3 days for chat 1, today and in 7 days for chat 2, for the
\* today of the model
StoredList ==
    << [chat |-> 1, album |-> Album(NameAlbum, NameArtist, Date(2020, 6, 3), None)],
       [chat |-> 1, album |-> Album(NameFar, NameArtist, Date(2010, 6, 4), None)],
       [chat |-> 1, album |-> Album(NameLeap, NameArtist, Date(2020, 6, 6), None)],
       [chat |-> 2, album |-> Album(NameAlbum, NameArtist, Date(2020, 6, 3), None)],
       [chat |-> 2, album |-> Album(NameZeta, NameArtist, Date(2019, 6, 10), None)] >>

NotifyTodays == {Date(2024, 6, 3)}

\* notifications.json as an earlier day left it: the reminder of chat 1 a week
\* before the anniversary of 4 June
EarlierLog ==
    [key \in {<<"1","|">> \o NameArtist \o <<"|">> \o NameFar \o <<"|","2","0","2","4","|","7">>}
        |-> isoformat(Date(2024, 5, 28))]

\* storage.py:31-35: load_user_albums
load_user_albums(stored, chat_id) ==
    LET at == SelectSeq(stored, LAMBDA item : item.chat = chat_id)
    IN  [k \in 1..Len(at) |-> at[k].album]

\* birthdays.py:45: next_birthday raises for some album with a release date,
\* which leaves calculate_upcoming_birthdays with the ValueError
UpcomingRaises(albums, today) ==
    \E k \in 1..Len(albums) :
        /\ albums[k].release_date # None
        /\ next_birthday(albums[k].release_date, today) = ValueError

\* birthdays.py:42-51: the events of albums[1..n], before the sort
RECURSIVE UpcomingOf(_, _, _, _)
UpcomingOf(albums, today, within_days, n) ==
    IF n = 0 THEN <<>>
    ELSE LET before == UpcomingOf(albums, today, within_days, n - 1)
             album == albums[n]
             next_day == next_birthday(album.release_date, today)
         IN  IF album.release_date = None THEN before
             ELSE IF BeyondHorizon(DaysBetween(next_day, today), within_days) THEN before
             ELSE Append(before,
                         UpcomingBirthday(album, next_day, next_day.y - album.release_date.y,
                                          DaysBetween(next_day, today), n))

\* birthdays.py:36-53 as one call that does not raise
calculate_upcoming_birthdays(albums, today, within_days) ==
    LET found == UpcomingOf(albums, today, within_days, Len(albums))
    IN  SortByKey(found, Len(found))

\* main.py:239: max(days_before + (0,))
WithinDays(days_before) ==
    LET all == {days_before[k] : k \in 1..Len(days_before)} \cup {0}
    IN  CHOOSE m \in all : \A x \in all : x <= m

\* main.py:249-261: the last part of the key, or None when the event asks for
\* no reminder
Trigger(event, days_before) ==
    IF event.days_until = 0 THEN JStr(<<"d","a","y">>)
    ELSE IF \E k \in 1..Len(days_before) : days_before[k] = event.days_until
    THEN JStr(StrOfInt(event.days_until))
    ELSE None

\* main.py:248, 250, 257: the key of the log, an f-string
LogKey(chat_id, event, trigger) ==
    StrOfInt(chat_id) \o <<"|">> \o event.album.artist \o <<"|">> \o event.album.album
        \o <<"|">> \o StrOfInt(event.next_date.y) \o <<"|">> \o trigger.s

\* AlreadySent that never finds the key
AlreadySentNever(log, key, today) == FALSE

\* main.py:251, 258: log.get(key) == today.isoformat()
AlreadySent(log, key, today) == key \in DOMAIN log /\ log[key] = isoformat(today)

\* main.py:229-233 and 254, 261: _notify_user swallows the exception of a
\* failed send, and log[key] = today.isoformat() follows either way
Marked(log, key, today) ==
    [k \in DOMAIN log \cup {key} |-> IF k = key THEN isoformat(today) ELSE log[k]]

\* storage.py:48-52: load_notification_log
load_notification_log(file) == IF file = None THEN <<>> ELSE file

\* main.py:242-246: the run comes to the chat at position ui of iter_users:
\* its albums are loaded and its events calculated
Enter(run, ui) ==
    IF ui > Len(run.users) THEN [run EXCEPT !.ui = ui, !.ei = 1, !.events = <<>>]
    ELSE LET albums == load_user_albums(n_stored, run.users[ui])
         IN  IF albums = <<>> THEN [run EXCEPT !.ui = ui, !.ei = 1, !.events = <<>>]
             ELSE IF UpcomingRaises(albums, n_today)
             THEN [run EXCEPT !.ui = ui, !.ei = 1, !.events = <<>>, !.pc = "raised"]
             ELSE [run EXCEPT !.ui = ui, !.ei = 1,
                              !.events = calculate_upcoming_birthdays(albums, n_today,
                                             WithinDays(UPCOMING_NOTIFICATIONS))]

\* main.py:242-262: the loops, from the place of the run up to the next
\* `await _notify_user(...)` or to their end
RECURSIVE Advance(_)
Advance(run) ==
    IF run.pc = "raised" THEN run
    ELSE IF run.ui > Len(run.users) THEN [run EXCEPT !.pc = "ending"]
    ELSE IF run.ei > Len(run.events) THEN Advance(Enter(run, run.ui + 1))
    ELSE LET event == run.events[run.ei]
             trigger == Trigger(event, UPCOMING_NOTIFICATIONS)
         IN  IF trigger = None THEN Advance([run EXCEPT !.ei = @ + 1])
             ELSE IF AlreadySent(run.log, LogKey(run.users[run.ui], event, trigger), n_today)
             THEN Advance([run EXCEPT !.ei = @ + 1])
             ELSE [run EXCEPT !.pc = "sending"]

\* main.py:263-264: what the file holds once the run is at the end of the loops
Saved(run, file) == IF run.pc = "ending" /\ run.changed THEN run.log ELSE file

\* the run once its last step is taken
Ended(run) == IF run.pc = "ending" THEN [run EXCEPT !.pc = "done"] ELSE run

NoRun ==
    [pc |-> "ready", log |-> <<>>, changed |-> FALSE, users |-> <<>>, ui |-> 0, ei |-> 1,
     events |-> <<>>, after |-> {}]

\* the user files as the start finds them: up to MaxStored albums of
\* StoredList, in the order of the list
StoredChoices ==
    UNION {{[k \in 1..n |-> StoredList[at[k]]] :
               at \in {f \in [1..n -> 1..Len(StoredList)] :
                          \A k \in 1..(n - 1) : f[k] <= f[k + 1]}} : n \in 0..MaxStored}

\* the chats of which the user files hold an album
ChatsOf(stored) == {stored[k].chat : k \in 1..Len(stored)}

\* what load_albums (exporter.py:23-32) gives for the documents that chat_id
\* sends: every album of StoredList of that chat as a file of one album
NotifyDocuments(chat_id) ==
    {<<StoredList[k].album>> : k \in {i \in 1..Len(StoredList) : StoredList[i].chat = chat_id}}

\* storage.py:22-28: save_user_albums replaces the file of chat_id, the files
\* of the other chats stay
save_user_albums(stored, chat_id, albums) ==
    LET written == SavedAlbums(albums)
    IN  SelectSeq(stored, LAMBDA item : item.chat < chat_id)
            \o [k \in 1..Len(written) |-> [chat |-> chat_id, album |-> written[k]]]
            \o SelectSeq(stored, LAMBDA item : item.chat > chat_id)

NotifyStart ==
    /\ n_stored \in StoredChoices
    /\ n_users \in {files \in SUBSET Chats : ChatsOf(n_stored) \subseteq files}
    /\ n_today \in NotifyTodays
    /\ n_file \in {None, EarlierLog}
    /\ n_jobs = [j \in Jobs |-> NoRun]
    /\ n_sent = <<>>
    /\ n_saves = 0

\* main.py:236-246: the job starts: the log is loaded, the directory is
\* listed, and the loops run up to the first send, or to the end when there
\* is nothing to send
JobStarts(j) ==
    /\ n_jobs[j].pc = "ready"
    /\ \E users \in iter_users(n_users) :
         LET run == Advance([n_jobs[j] EXCEPT !.pc = "running",
                                             !.log = load_notification_log(n_file),
                                             !.users = users,
                                             !.after = {i \in Jobs : n_jobs[i].pc = "done"}])
         IN  /\ n_jobs' = [n_jobs EXCEPT ![j] = Ended(run)]
             /\ n_file' = Saved(run, n_file)
    /\ UNCHANGED <<n_users, n_stored, n_today, n_sent, n_saves>>
    /\ UNCHANGED notNotify

\* main.py:253-255, 260-262 and 229-233: the awaited send returns, delivered
\* (ok) or failed; the key is marked, and the loops run up to the next send or
\* to the end, where the log is saved
SendReturns(j, ok) ==
    /\ n_jobs[j].pc = "sending"
    /\ LET at == n_jobs[j]
           event == at.events[at.ei]
           trigger == Trigger(event, UPCOMING_NOTIFICATIONS)
           key == LogKey(at.users[at.ui], event, trigger)
           run == Advance([at EXCEPT !.log = Marked(at.log, key, n_today),
                                     !.changed = TRUE,
                                     !.ei = @ + 1])
       IN  /\ n_sent' = Append(n_sent,
                  [job |-> j, chat |-> at.users[at.ui], artist |-> event.album.artist,
                   album |-> event.album.album, year |-> event.next_date.y,
                   days_until |-> event.days_until, key |-> key, ok |-> ok])
           /\ n_jobs' = [n_jobs EXCEPT ![j] = Ended(run)]
           /\ n_file' = Saved(run, n_file)
    /\ UNCHANGED <<n_users, n_stored, n_today, n_saves>>
    /\ UNCHANGED notNotify

\* main.py:105-127: handle_document for a document that load_albums reads:
\* from load_albums (l.120) to the unlink after save_user_albums (l.125-126)
\* nothing is awaited, so the file of the chat is replaced in one step, also
\* while a run waits for a send; the downloaded <chat>_upload.json is no user
\* file for iter_users (storage.py:42-45), and a document that is refused
\* (l.108-110, 121-124) leaves the files as they are
handle_document(chat_id, albums) ==
    /\ n_saves < MaxDocuments
    /\ n_saves' = n_saves + 1
    /\ n_stored' = save_user_albums(n_stored, chat_id, albums)
    /\ n_users' = n_users \cup {chat_id}
    /\ UNCHANGED <<n_today, n_file, n_jobs, n_sent>>
    /\ UNCHANGED notNotify

NotifyInit == NotifyStart /\ AggIdle /\ EnrichIdle /\ BdayIdle /\ UpcomingIdle /\ ExportIdle /\ FilterIdle /\ TwiceIdle /\ ParseIdle /\ SaveIdle /\ LookupIdle /\ PagingIdle /\ ThreadsIdle

NotifyNext ==
    \/ \E j \in Jobs : JobStarts(j)
    \/ \E j \in Jobs, ok \in BOOLEAN : SendReturns(j, ok)
    \/ \E chat_id \in Chats : \E albums \in NotifyDocuments(chat_id) : handle_document(chat_id, albums)

SpecNotify == NotifyInit /\ [][NotifyNext]_vars


-----------------------------------------------------------------------------
(* run_desktop.py: _DesktopApi.save_albums_json.  A dialog gives back the    *)
(* triple (destination, cancelled, error) of _prompt_with_pywebview and of   *)
(* _prompt_with_tkinter: an error text, a cancellation, or a destination.    *)

Platforms == {<<"w","i","n","3","2">>, <<"l","i","n","u","x">>, <<"d","a","r","w","i","n">>}

\* the dialogs of the class, by the name of their method
Dialogs == {"pywebview", "tkinter"}

\* run_desktop.py:157: sys.platform.startswith("win")
StartsWithWin(platform) == Len(platform) >= 3 /\ SubSeq(platform, 1, 3) = <<"w","i","n">>

\* run_desktop.py:155-170: prompt_order
PromptOrder(platform) ==
    IF StartsWithWin(platform) THEN <<"tkinter", "pywebview">> ELSE <<"pywebview", "tkinter">>

\* the error text of a dialog that could not be shown
ErrorText(dialog) == IF dialog = "tkinter" THEN <<"t","k","i","n","t","e","r",":"," ","n","o"," ","d","i","s","p","l","a","y">> ELSE <<"p","y","w","e","b","v","i","e","w",":"," ","n","o"," ","b","a","c","k","e","n","d">>

\* the places a dialog may give back: a file that can be written, a file that
\* may not be written, and a directory
PathFree == <<"/","h","o","m","e","/","m","e","/","a","l","b","u","m","s",".","j","s","o","n">>
PathLocked == <<"/","e","t","c","/","a","l","b","u","m","s",".","j","s","o","n">>
PathFolder == <<"/","h","o","m","e","/","m","e">>
Destinations == {PathFree, PathLocked, PathFolder}

\* what open(destination, "w") raises: the errno and the strerror of the
\* OSError, None when the file is opened
OpenFailure(destination) ==
    IF destination = PathLocked
    THEN [errno |-> <<"1","3">>, strerror |-> <<"P","e","r","m","i","s","s","i","o","n"," ","d","e","n","i","e","d">>]
    ELSE IF destination = PathFolder
    THEN [errno |-> <<"2","1">>, strerror |-> <<"I","s"," ","a"," ","d","i","r","e","c","t","o","r","y">>]
    ELSE None

\* str(exc) of the OSError of a failed write: it names the destination
WriteErrorText(destination) ==
    <<"[","E","r","r","n","o"," ">> \o OpenFailure(destination).errno \o <<"]"," ">>
        \o OpenFailure(destination).strerror \o <<":"," ","'">> \o destination \o <<"'">>

\* the triple (destination, cancelled, error) that a dialog gives back
DialogAnswers(dialog) ==
    {[destination |-> None, cancelled |-> FALSE, error |-> JStr(ErrorText(dialog))],
     [destination |-> None, cancelled |-> TRUE, error |-> None]}
    \cup {[destination |-> JStr(p), cancelled |-> FALSE, error |-> None] : p \in Destinations}

\* "; ".join(items)
RECURSIVE JoinSemicolon(_)
JoinSemicolon(items) ==
    IF Len(items) = 0 THEN <<>>
    ELSE IF Len(items) = 1 THEN items[1]
    ELSE items[1] \o <<";", " ">> \o JoinSemicolon(Tail(items))

\* run_desktop.py:190-196: the messages without repetitions, in order
RECURSIVE Unique(_, _)
Unique(errors, n) ==
    IF n = 0 THEN <<>>
    ELSE LET before == Unique(errors, n - 1)
         IN  IF errors[n] # <<>> /\ \A k \in 1..Len(before) : before[k] # errors[n]
             THEN Append(before, errors[n]) ELSE before

\* run_desktop.py:199: the message when no dialog reported an error, written
\* here in Latin letters
CouldNotSave == <<"N","e"," ","u","d","a","l","o","s","'"," ","s","o","h","r","a","n","i","t","'"," ","f","a","j","l",".">>

SaveStart ==
    /\ spc = "loop"
    /\ s_platform \in Platforms
    /\ s_dialogs \in {answers \in [Dialogs -> UNION {DialogAnswers(d) : d \in Dialogs}] :
                         \A d \in Dialogs : answers[d] \in DialogAnswers(d)}
    /\ s_order = PromptOrder(s_platform)
    /\ s_calls = <<>> /\ s_errors = <<>> /\ s_written = {} /\ s_result = None

\* run_desktop.py:172-176: the dialog reports an error
PromptFails ==
    /\ spc = "loop" /\ s_order # <<>>
    /\ s_dialogs[Head(s_order)].error # None
    /\ s_calls' = Append(s_calls, Head(s_order))
    /\ s_errors' = Append(s_errors, s_dialogs[Head(s_order)].error.s)
    /\ s_order' = Tail(s_order)
    /\ UNCHANGED <<spc, s_platform, s_dialogs, s_written, s_result>>
    /\ UNCHANGED notSave

\* run_desktop.py:178-184: the dialog gives a destination and the content is
\* written there
PromptSaves ==
    /\ spc = "loop" /\ s_order # <<>>
    /\ s_dialogs[Head(s_order)].error = None
    /\ s_dialogs[Head(s_order)].destination # None
    /\ OpenFailure(s_dialogs[Head(s_order)].destination.s) = None
    /\ s_calls' = Append(s_calls, Head(s_order))
    /\ s_written' = s_written \cup {s_dialogs[Head(s_order)].destination.s}
    /\ s_result' = [status |-> "saved"]
    /\ spc' = "done"
    /\ UNCHANGED <<s_platform, s_dialogs, s_order, s_errors>>
    /\ UNCHANGED notSave

\* run_desktop.py:178-183: the dialog gives a destination and the write raises
\* OSError
PromptWriteFails ==
    /\ spc = "loop" /\ s_order # <<>>
    /\ s_dialogs[Head(s_order)].error = None
    /\ s_dialogs[Head(s_order)].destination # None
    /\ OpenFailure(s_dialogs[Head(s_order)].destination.s) # None
    /\ s_calls' = Append(s_calls, Head(s_order))
    /\ s_errors' = Append(s_errors, WriteErrorText(s_dialogs[Head(s_order)].destination.s))
    /\ s_order' = Tail(s_order)
    /\ UNCHANGED <<spc, s_platform, s_dialogs, s_written, s_result>>
    /\ UNCHANGED notSave

\* run_desktop.py:186-187: the user cancelled the dialog
PromptCancelled ==
    /\ spc = "loop" /\ s_order # <<>>
    /\ s_dialogs[Head(s_order)].error = None
    /\ s_dialogs[Head(s_order)].destination = None
    /\ s_dialogs[Head(s_order)].cancelled
    /\ s_calls' = Append(s_calls, Head(s_order))
    /\ s_result' = [status |-> "cancelled"]
    /\ spc' = "done"
    /\ UNCHANGED <<s_platform, s_dialogs, s_order, s_errors, s_written>>
    /\ UNCHANGED notSave

\* run_desktop.py:189-199: no dialog is left
SaveGivesUp ==
    /\ spc = "loop" /\ s_order = <<>>
    /\ s_result' = [status |-> "error",
                    message |-> IF s_errors # <<>>
                                THEN JoinSemicolon(Unique(s_errors, Len(s_errors)))
                                ELSE CouldNotSave]
    /\ spc' = "done"
    /\ UNCHANGED <<s_platform, s_dialogs, s_order, s_calls, s_errors, s_written>>
    /\ UNCHANGED notSave

SaveInit == SaveStart /\ AggIdle /\ EnrichIdle /\ BdayIdle /\ UpcomingIdle /\ ExportIdle /\ FilterIdle /\ TwiceIdle /\ ParseIdle /\ NotifyIdle /\ LookupIdle /\ PagingIdle /\ ThreadsIdle

SaveNext ==
    \/ PromptFails
    \/ PromptSaves
    \/ PromptWriteFails
    \/ PromptCancelled
    \/ SaveGivesUp

SpecSave == SaveInit /\ [][SaveNext]_vars

-----------------------------------------------------------------------------
(* Properties of save_albums_json *)

\* the order of the dialogs that the platform is to have
ExpectedOrder(platform) ==
    IF StartsWithWin(platform) THEN <<"win32", "tkinter", "pywebview">>
    ELSE <<"pywebview", "tkinter">>

\* C24: the dialogs are opened in the order of the platform (Windows: Win32,
\* tkinter, pywebview; elsewhere: pywebview, tkinter), and the first dialog
\* that gives a destination is the last one opened: the content is written
\* there and the call returns the status "saved".
C24_DialogsInPlatformOrder ==
    spc = "idle" \/
    /\ Len(s_calls) <= Len(ExpectedOrder(s_platform))
    /\ \A k \in 1..Len(s_calls) : s_calls[k] = ExpectedOrder(s_platform)[k]
    /\ \A k \in 1..Len(s_calls) :
           (s_calls[k] \in DOMAIN s_dialogs /\ s_dialogs[s_calls[k]].destination # None) =>
               /\ k = Len(s_calls)
               /\ s_dialogs[s_calls[k]].destination.s \in s_written
               /\ s_result = [status |-> "saved"]

-----------------------------------------------------------------------------
(* Properties of send_daily_notifications *)

\* the key of a send as the tuple (chat, artist, album, next_date.year,
\* trigger); the trigger is "day" for days_until 0 and the number otherwise
KeyOfSend(sent) == <<sent.chat, sent.artist, sent.album, sent.year, sent.days_until>>

\* the positions of n_sent at which job j sent
SendsOf(j) == {k \in 1..Len(n_sent) : n_sent[k].job = j}

\* C23: a run that starts after another run on the same date has completed
\* sends no reminder for a key the earlier run sent; one run sends at most one
\* reminder per key; and every reminder is for an event whose days_until is 0
\* or one of the configured days-before values.
C23_NoRepeatAfterCompletedRun ==
    /\ \A i \in Jobs, j \in Jobs :
           i \in n_jobs[j].after =>
               \A a \in SendsOf(i), b \in SendsOf(j) : KeyOfSend(n_sent[a]) # KeyOfSend(n_sent[b])
    /\ \A j \in Jobs : \A a \in SendsOf(j), b \in SendsOf(j) :
           a # b => KeyOfSend(n_sent[a]) # KeyOfSend(n_sent[b])
    /\ \A k \in 1..Len(n_sent) :
           \/ n_sent[k].days_until = 0
           \/ \E d \in 1..Len(UPCOMING_NOTIFICATIONS) :
                  UPCOMING_NOTIFICATIONS[d] = n_sent[k].days_until

\* the second run has completed after a first run that sent two reminders,
\* over albums that are stored twice for one chat, and sent nothing itself
C23_Witness ==
    /\ Len(n_stored) = 2 /\ n_stored[1] = n_stored[2]
    /\ \E i \in Jobs, j \in Jobs :
           /\ i \in n_jobs[j].after /\ n_jobs[j].pc = "done"
           /\ SendsOf(i) # {} /\ SendsOf(j) = {}


\* both runs have started and neither started after the other had completed
Overlapping(i, j) ==
    /\ i # j
    /\ n_jobs[i].pc # "ready" /\ n_jobs[j].pc # "ready"
    /\ i \notin n_jobs[j].after /\ j \notin n_jobs[i].after

\* C28: when the two runs overlap on the same date, no reminder is sent twice
\* for the same key, and once both have completed the saved log holds the key
\* of every reminder either run sent.
C28_OverlappingRunsSendOnce ==
    (\E i \in Jobs, j \in Jobs : Overlapping(i, j)) =>
        /\ \A a \in 1..Len(n_sent), b \in 1..Len(n_sent) :
               a # b => KeyOfSend(n_sent[a]) # KeyOfSend(n_sent[b])
        /\ (\A j \in Jobs : n_jobs[j].pc = "done") =>
               \A k \in 1..Len(n_sent) : n_file # None /\ n_sent[k].key \in DOMAIN n_file

\* the key was delivered by some send
Delivered(key) == \E k \in 1..Len(n_sent) : n_sent[k].key = key /\ n_sent[k].ok

\* C29: a key is in a log with today's date only when its reminder was
\* delivered; and when a send of a completed run failed, a run that starts
\* afterwards on the same date sends the reminder of that key again.
C29_OnlyDeliveredKeysAreMarked ==
    /\ \A j \in Jobs : \A key \in DOMAIN n_jobs[j].log :
           n_jobs[j].log[key] = isoformat(n_today) => Delivered(key)
    /\ \A i \in Jobs, j \in Jobs :
           (i \in n_jobs[j].after /\ n_jobs[j].pc = "done") =>
               \A a \in SendsOf(i) :
                   ~Delivered(n_sent[a].key) =>
                       \E b \in SendsOf(j) : n_sent[b].key = n_sent[a].key


-----------------------------------------------------------------------------
(* release_date.py: _perform_lookup on one response of the catalog *)

\* the values of "id" in a group; None stands for a group without the key
GroupIds == {JStr(<<"a">>), JStr(<<"b">>), None}

\* the values of "first-release-date" in a group: full dates, a year, a year
\* and month, a text that is no date, a year beyond a C int; None stands for
\* a group without the key
GroupDates ==
    { JStr(<<"1","9","9","6","-","0","9","-","2","4">>), JStr(<<"1","9","9","6">>), JStr(<<"1","9","9","6","-","0","1">>), JStr(<<"1","9","9","4","-","0","5","-","1","0">>),
      JStr(<<"?">>), JStr(<<"2","1","4","7","4","8","3","6","4","8">>), None }

\* a release group with the keys that have a value
GroupWith(id, first_release_date) ==
    [k \in (IF id = None THEN {} ELSE {"id"})
           \cup (IF first_release_date = None THEN {} ELSE {"first-release-date"})
        |-> IF k = "id" THEN id ELSE first_release_date]

GroupChoices == {GroupWith(id, raw) : id \in GroupIds, raw \in GroupDates}

\* a response without the key "release-groups"
PayloadBare == ("count" :> JInt(0))

LookupStart ==
    /\ lpc = "call"
    /\ l_payload \in {PayloadBare} \cup
           {("release-groups" :> groups) :
                groups \in UNION {[1..n -> GroupChoices] : n \in 0..MaxGroups}}
    /\ l_result = None

\* release_date.py:92-101
PerformLookup ==
    /\ lpc = "call"
    /\ l_result' = _perform_lookup(l_payload)
    /\ lpc' = "done"
    /\ UNCHANGED l_payload
    /\ UNCHANGED notLookup

LookupInit == LookupStart /\ AggIdle /\ EnrichIdle /\ BdayIdle /\ UpcomingIdle /\ ExportIdle /\ FilterIdle /\ TwiceIdle /\ ParseIdle /\ NotifyIdle /\ SaveIdle /\ PagingIdle /\ ThreadsIdle

LookupNext == PerformLookup

SpecLookup == LookupInit /\ [][LookupNext]_vars

-----------------------------------------------------------------------------
(* Properties of _perform_lookup *)

\* the groups of the response
GroupsOf(payload) == Get(payload, "release-groups")

\* the date of group k as _parse_release_date reads it
ParsedAt(groups, k) == _parse_release_date(Get(groups[k], "first-release-date"))

\* the groups whose first-release date parses
Parseable(groups) ==
    {k \in 1..Len(groups) : ParsedAt(groups, k) # None /\ ParsedAt(groups, k) # OverflowError}

\* the first group among those with the earliest date
EarliestFirst(groups) ==
    CHOOSE k \in Parseable(groups) :
        \A j \in Parseable(groups) :
            /\ ~DateLt(ParsedAt(groups, j), ParsedAt(groups, k))
            /\ (j < k => DateLt(ParsedAt(groups, k), ParsedAt(groups, j)))

\* C25: the lookup returns the id and date of the group with the earliest
\* parseable first-release date, the first such group on a tie; a group whose
\* date is missing or does not parse is never chosen, and without a parseable
\* date the result is (None, None).
C25_EarliestParseableGroup ==
    (lpc = "done" /\ "release-groups" \in DOMAIN l_payload) =>
        LET groups == GroupsOf(l_payload)
        IN  IF Parseable(groups) = {}
            THEN l_result = [id |-> None, date |-> None]
            ELSE l_result = [id |-> Get(groups[EarliestFirst(groups)], "id"),
                             date |-> ParsedAt(groups, EarliestFirst(groups))]


-----------------------------------------------------------------------------
(* bot/main.py: handle_document, the /upcoming command and                   *)
(* handle_upcoming_callback.  The application is built without concurrent    *)
(* updates (main.py:268), so a handler runs from its start to its end before *)
(* the next one starts.  A handler is one step, except upcoming, which waits *)
(* for its reply (main.py:145) between computing the view and storing it:    *)
(* at that wait the reply is on its way and the view is in no dict yet.      *)
(* What runs during a wait is the job of send_daily_notifications, which     *)
(* reads the user files and writes notifications.json, not the views.        *)

\* main.py:32
DEFAULT_WITHIN_DAYS == 30

\* main.py:149: the number of views that are kept
KeptViews == 10

\* the user files of the chat, as save_user_albums left them: none, four
\* albums with anniversaries on 1 June, 5 June, 20 June and 20 July, and two
\* albums of which one had its anniversary on 20 May
PagingFiles ==
    { <<>>,
      << Album(NameAlbum, NameArtist, Date(2000, 6, 1), None),
         Album(NameFar, NameArtist, Date(2001, 6, 5), None),
         Album(NameLeap, NameArtist, Date(2002, 6, 20), None),
         Album(NameZeta, NameArtist, Date(2003, 7, 20), None) >>,
      << Album(NameFar, NameArtist, Date(2004, 5, 20), None),
         Album(NameAlbum, NameArtist, Date(2000, 6, 1), None) >> }

\* the names of the documents that filters.Document.FileExtension("json")
\* (main.py:273) lets through: the filter compares in lower case
FileNames == {<<"a",".","j","s","o","n">>, <<"a",".","J","S","O","N">>}

\* a file of another origin: minutes of more than two decimals (0.125 lies
\* halfway between two hundredths, the float of 1.005 below the middle) and
\* tracks
UnroundedFile ==
    << Listened(NameFar, NameArtist, DoubleOf(1, 8), Date(2004, 5, 20), None, {StrTrackTwo, StrTrackOne}),
       Listened(NameAlbum, NameArtist, DoubleOf(1005, 1000), Date(2000, 6, 1), JStr(IdStored), {}) >>

\* the documents a user sends: files that load_albums reads, with the albums
\* it returns, and a file on which it raises (exporter.py:29-31)
PagingDocuments ==
    {[file_name |-> n, readable |-> TRUE, albums |-> a] :
        n \in FileNames, a \in PagingFiles \cup {UnroundedFile}}
    \cup {[file_name |-> n, readable |-> FALSE, albums |-> <<>>] : n \in FileNames}

\* the days of the handlers: one in 2024 and one in the last year of date
PagingTodays == {Date(2024, 6, 1), Date(MAXYEAR, 6, 1)}

\* context.args of /upcoming: none, or one word
CommandArgs == {None, JStr(<<"7">>), JStr(<<"x">>)}

\* query.data of the callbacks: the buttons of main.py:55-79 and data that no
\* button holds
CallbackData ==
    { <<"u","p","c","o","m","i","n","g",":","p","r","e","v">>, <<"u","p","c","o","m","i","n","g",":","n","e","x","t">>, <<"u","p","c","o","m","i","n","g",":","n","o","o","p">>, <<"u","p","c","o","m","i","n","g",":","c","l","o","s","e">>, <<"u","p","c","o","m","i","n","g",":","d","a","y","s",":","7">>, <<"u","p","c","o","m","i","n","g",":","d","a","y","s",":","3","0">>, <<"u","p","c","o","m","i","n","g",":","d","a","y","s",":","9","0">>, <<"u","p","c","o","m","i","n","g",":","d","a","y","s",":","x">>, <<"u","p","c","o","m","i","n","g",":","d","a","y","s">>, <<"o","t","h","e","r",":","p","r","e","v">> }

\* main.py:158: query.data.split(":"), for each data
PartsOf == [data \in CallbackData |-> Split(data, ":")]

\* main.py:139-141: int(context.args[0]), or the default; a day range beyond
\* INT_MAX, which Python holds as it is, is outside the inputs of this part
DaysOfArgs(arg) ==
    IF arg = None THEN DEFAULT_WITHIN_DAYS
    ELSE IF IsIntLiteral(arg.s) THEN IntOf(arg.s) ELSE DEFAULT_WITHIN_DAYS

\* main.py:142: the view of a reply
NewView(days, found) == [days |-> days, events |-> found, index |-> 0]

\* the keys of the dict, and views.get(id)
ViewIds(views) == {views[k].id : k \in 1..Len(views)}
ViewOf(views, id) ==
    IF id \in ViewIds(views)
    THEN views[CHOOSE k \in 1..Len(views) : views[k].id = id].view
    ELSE None

\* main.py:149-151: list(views)[:-10] is popped, so that the ten items that
\* were inserted last stay
KeepLast(views) ==
    IF Len(views) <= KeptViews THEN views
    ELSE SubSeq(views, Len(views) - KeptViews + 1, Len(views))

\* views[id] = view: a key that is there keeps its place, a new key goes last
WithView(views, id, view) ==
    IF id \in ViewIds(views)
    THEN [k \in 1..Len(views) |-> IF views[k].id = id THEN [id |-> id, view |-> view] ELSE views[k]]
    ELSE Append(views, [id |-> id, view |-> view])

\* views.pop(id, None)
WithoutView(views, id) == SelectSeq(views, LAMBDA item : item.id # id)

\* main.py:188-193: the view after "prev"
Prev(view) ==
    IF view.events # <<>> /\ view.index > 0 THEN [view EXCEPT !.index = @ - 1] ELSE view

\* main.py:195-200: the view after "next"
NextView(view) ==
    IF view.events # <<>> /\ view.index < Len(view.events) - 1
    THEN [view EXCEPT !.index = @ + 1] ELSE view

PagingStart ==
    /\ p_today \in PagingTodays
    /\ p_albums \in PagingFiles
    /\ p_count = 0
    /\ p_views = <<>>
    /\ p_last = None
    /\ p_pending = None

\* main.py:105-127: handle_document.  The user file is written at l.125 only:
\* a name without ".json" and a file that load_albums cannot read are
\* answered and leave it as it was; the albums of any other file replace it
\* as save_user_albums writes them, the same albums and no albums included.
\* The download goes to
\* <chat_id>_upload.json, which is removed again and is no user file
\* (storage.py:41-44: its stem is no int).
Upload(document) ==
    /\ p_pending = None
    /\ IF ~EndsWith(document.file_name, <<".","j","s","o","n">>)
       THEN /\ p_last' = "expects json"
            /\ UNCHANGED p_albums
       ELSE IF ~document.readable
       THEN /\ p_last' = "unreadable"
            /\ UNCHANGED p_albums
       ELSE /\ p_albums' = SavedAlbums(document.albums)
            /\ p_last' = "saved"
    /\ UNCHANGED <<p_today, p_count, p_views, p_pending>>
    /\ UNCHANGED notPaging

\* main.py:130-145: the /upcoming command up to its reply.  Without albums
\* the reply of l.136 ends the handler; otherwise the view is computed and
\* the handler waits for the message that reply_text returns.
UpcomingCommand(arg) ==
    /\ p_pending = None
    /\ IF p_albums = <<>>
       THEN /\ p_last' = "no albums"
            /\ UNCHANGED p_pending
       ELSE IF UpcomingRaises(p_albums, p_today)
       THEN /\ p_last' = "raised"
            /\ UNCHANGED p_pending
       ELSE /\ p_count < MaxMessages
            /\ p_pending' = NewView(DaysOfArgs(arg),
                                    calculate_upcoming_birthdays(p_albums, p_today, DaysOfArgs(arg)))
            /\ p_last' = "sent"
    /\ UNCHANGED <<p_today, p_albums, p_count, p_views>>
    /\ UNCHANGED notPaging

\* main.py:145-151: reply_text returns the message that was sent; the view is
\* stored under its id and the ten views stored last are kept
UpcomingStored ==
    /\ p_pending # None
    /\ p_count' = p_count + 1
    /\ p_views' = KeepLast(WithView(p_views, p_count + 1, p_pending))
    /\ p_pending' = None
    /\ UNCHANGED <<p_today, p_albums, p_last>>
    /\ UNCHANGED notPaging

\* main.py:201-217: the view after "days" with the number text, and the answer
DaysCallback(view, text) ==
    IF ~IsIntLiteral(text) THEN [view |-> view, answer |-> "bad range"]
    ELSE IF IntOf(text) = view.days THEN [view |-> view, answer |-> "answered"]
    ELSE IF p_albums = <<>> THEN [view |-> view, answer |-> "no albums"]
    ELSE IF UpcomingRaises(p_albums, p_today)
    THEN \* view["days"] is assigned before calculate_upcoming_birthdays raises
         [view |-> [view EXCEPT !.days = IntOf(text)], answer |-> "raised"]
    ELSE [view |-> NewView(IntOf(text),
                           calculate_upcoming_birthdays(p_albums, p_today, IntOf(text))),
          answer |-> "edited"]

\* main.py:154-226: handle_upcoming_callback for a button of message id
Callback(id, data) ==
    /\ p_pending = None
    /\ id \in 1..p_count
    /\ LET parts == PartsOf[data]
           action == IF Len(parts) > 1 THEN parts[2] ELSE <<>>
           view == ViewOf(p_views, id)
       IN  IF parts[1] # <<"u","p","c","o","m","i","n","g">>
           THEN /\ p_last' = "answered"
                /\ UNCHANGED p_views
           ELSE IF view = None
           THEN /\ p_last' = "stale"
                /\ UNCHANGED p_views
           ELSE IF action = <<"n","o","o","p">>
           THEN /\ p_last' = "answered"
                /\ UNCHANGED p_views
           ELSE IF action = <<"c","l","o","s","e">>
           THEN /\ p_views' = WithoutView(p_views, id)
                /\ p_last' = "closed"
           ELSE IF action = <<"p","r","e","v">>
           THEN /\ p_views' = WithView(p_views, id, Prev(view))
                /\ p_last' = IF Prev(view) = view THEN "first" ELSE "edited"
           ELSE IF action = <<"n","e","x","t">>
           THEN /\ p_views' = WithView(p_views, id, NextView(view))
                /\ p_last' = IF NextView(view) = view THEN "last" ELSE "edited"
           ELSE IF action = <<"d","a","y","s">> /\ Len(parts) > 2
           THEN LET after == DaysCallback(view, parts[3])
                IN  /\ p_views' = WithView(p_views, id, after.view)
                    /\ p_last' = after.answer
           ELSE /\ p_last' = "answered"
                /\ UNCHANGED p_views
    /\ UNCHANGED <<p_today, p_albums, p_count, p_pending>>
    /\ UNCHANGED notPaging

PagingInit == PagingStart /\ AggIdle /\ EnrichIdle /\ BdayIdle /\ UpcomingIdle /\ ExportIdle /\ FilterIdle /\ TwiceIdle /\ ParseIdle /\ NotifyIdle /\ SaveIdle /\ LookupIdle /\ ThreadsIdle

PagingNext ==
    \/ \E document \in PagingDocuments : Upload(document)
    \/ \E arg \in CommandArgs : UpcomingCommand(arg)
    \/ UpcomingStored
    \/ \E id \in 1..MaxMessages, data \in CallbackData : Callback(id, data)

SpecPaging == PagingInit /\ [][PagingNext]_vars


-----------------------------------------------------------------------------
(* Properties of the paging views *)

DataPrev == <<"u","p","c","o","m","i","n","g",":","p","r","e","v">>
DataNext == <<"u","p","c","o","m","i","n","g",":","n","e","x","t">>

\* the index of the view points at one of its events, or is 0 without events
IndexInRange(view) ==
    IF view.events = <<>> THEN view.index = 0
    ELSE 0 <= view.index /\ view.index < Len(view.events)

\* "prev" on a view at its first event, and "next" on a view at its last
\* event, leave the views as they are
EdgesLeaveViewUnchanged ==
    \A id \in ViewIds(p_views) :
        /\ (Callback(id, DataPrev) /\ ViewOf(p_views, id).index = 0) => p_views' = p_views
        /\ (Callback(id, DataNext)
              /\ ViewOf(p_views, id).index >= Len(ViewOf(p_views, id).events) - 1)
               => p_views' = p_views

\* a step that changes the day range of a view sets its index to 0
DayChangeResetsIndex ==
    \A id \in ViewIds(p_views) :
        (id \in ViewIds(p_views') /\ ViewOf(p_views', id).days # ViewOf(p_views, id).days)
            => ViewOf(p_views', id).index = 0

\* C30: in every stored paging view, after any sequence of /upcoming commands
\* and prev, next, days, noop and close callbacks, the index is 0 when the
\* view has no events and otherwise at least 0 and below the number of
\* events; prev at the first event and next at the last leave the view
\* unchanged; and changing the day range resets the index to 0.
C30_PagingIndexStaysInRange ==
    /\ [](\A k \in 1..Len(p_views) : IndexInRange(p_views[k].view))
    /\ [][EdgesLeaveViewUnchanged /\ DayChangeResetsIndex]_vars


-----------------------------------------------------------------------------
(* release_date.py: lookup_release called by several threads at once.  The   *)
(* desktop application serves its pages with make_server(..., threaded=True) *)
(* (run_desktop.py:38) and the request handler calls the enricher            *)
(* (webapp.py:301), so two requests run lookup_release on the one _CACHE.    *)
(* A step is one operation on the dict; a thread may be overtaken between    *)
(* any two of them, and while it waits for the catalog.                      *)

\* the threads that serve requests at the same time
Threads == {1, 2}

\* the titles the requests ask for
ThreadTitles == {TitleDeluxe, TitlePlain, TitleUpper}

\* what the catalog answers: nothing, or one dated release group
ThreadPayloads == {PayloadEmpty, PayloadPinkerton}

\* a thread that is not inside lookup_release
IdleThread ==
    [pc |-> "idle", call |-> 0, variants |-> <<>>, vi |-> 1,
     best_result |-> NoResult, result |-> NoResult]

ThreadsStart ==
    /\ th_cache = <<>>
    /\ th_state = [th \in Threads |-> IdleThread]
    /\ th_calls = <<>>
    /\ th_answered = <<>>

\* the arguments of the call that thread th is in
CallOf(th) == th_calls[th_state[th].call]

\* release_date.py:105: cache_key of the call of thread th
cache_key(th) == CacheKey(CallOf(th).album, CallOf(th).artist)

\* release_date.py:117: candidate_key of the variant thread th is at
candidate_key(th) ==
    CandidateKey(th_state[th].variants[th_state[th].vi], CallOf(th).artist)

\* the calls that have returned
ReturnedCalls == {k \in 1..Len(th_calls) : th_calls[k].outcome = "returned"}

\* the call of thread th ends
CallEnded(th, outcome, returned) ==
    [th_calls EXCEPT ![th_state[th].call].outcome = outcome,
                     ![th_state[th].call].returned = returned]

\* release_date.py:123-127 and the next turn of the loop at 116, or the way
\* out of it, once the variant gave found
AfterResult(th, found) ==
    LET mine == th_state[th]
        best == IF StopsAt(found) THEN found ELSE NextBest(mine.best_result, found)
    IN  IF StopsAt(found) \/ mine.vi = Len(mine.variants)
        THEN [mine EXCEPT !.pc = "final", !.best_result = best, !.result = NoResult]
        ELSE [mine EXCEPT !.pc = "loop", !.vi = @ + 1, !.best_result = best,
                          !.result = NoResult]

\* release_date.py:104-106 and 115-116: a thread enters lookup_release and
\* tests whether the original key is in the cache
LookupEnters(th, album, artist) ==
    /\ th_state[th].pc = "idle"
    /\ Len(th_calls) < MaxCalls
    /\ th_calls' = Append(th_calls,
                          [album |-> album, artist |-> artist, after |-> ReturnedCalls,
                           queries |-> 0, outcome |-> "running", returned |-> NoResult])
    /\ th_state' = [th_state EXCEPT ![th] =
          IF CacheKey(album, artist) \in DOMAIN th_cache
          THEN [IdleThread EXCEPT !.pc = "hit", !.call = Len(th_calls) + 1]
          ELSE [IdleThread EXCEPT !.pc = "loop", !.call = Len(th_calls) + 1,
                                  !.variants = _title_variants(album)]]
    /\ UNCHANGED <<th_cache, th_answered>>
    /\ UNCHANGED notThreads

\* release_date.py:107: the entry under the original key is read and returned
ReturnsCached(th) ==
    /\ th_state[th].pc = "hit"
    /\ th_calls' = CallEnded(th, "returned", th_cache[cache_key(th)])
    /\ th_state' = [th_state EXCEPT ![th] = IdleThread]
    /\ UNCHANGED <<th_cache, th_answered>>
    /\ UNCHANGED notThreads

\* release_date.py:117-118 and 121, 85: the key of the variant is tested; when
\* it is missing the request is sent and the thread waits in session.get
TestsVariant(th) ==
    /\ th_state[th].pc = "loop"
    /\ IF candidate_key(th) \in DOMAIN th_cache
       THEN /\ th_state' = [th_state EXCEPT ![th].pc = "cached"]
            /\ UNCHANGED th_calls
       ELSE /\ th_state' = [th_state EXCEPT ![th].pc = "get"]
            /\ th_calls' = [th_calls EXCEPT ![th_state[th].call].queries = @ + 1]
    /\ UNCHANGED <<th_cache, th_answered>>
    /\ UNCHANGED notThreads

\* release_date.py:119 and 123-127: the entry of the variant is read
ReadsVariant(th) ==
    /\ th_state[th].pc = "cached"
    /\ th_state' = [th_state EXCEPT ![th] = AfterResult(th, th_cache[candidate_key(th)])]
    /\ UNCHANGED <<th_cache, th_calls, th_answered>>
    /\ UNCHANGED notThreads

\* release_date.py:85-101 and 121: the catalog answers with payload
CatalogAnswers(th, payload) ==
    /\ th_state[th].pc = "get"
    /\ th_state' = [th_state EXCEPT ![th].pc = "store",
                                    ![th].result = _perform_lookup(payload)]
    /\ th_answered' =
          [key \in DOMAIN th_answered \cup {candidate_key(th)} |->
              IF key = candidate_key(th)
              THEN (IF key \in DOMAIN th_answered THEN th_answered[key] ELSE 0) + 1
              ELSE th_answered[key]]
    /\ UNCHANGED <<th_cache, th_calls>>
    /\ UNCHANGED notThreads

\* release_date.py:85-91 and 130-132: the query raises a
\* requests.RequestException, which leaves lookup_release
CatalogFails(th) ==
    /\ th_state[th].pc = "get"
    /\ th_calls' = CallEnded(th, "raised", NoResult)
    /\ th_state' = [th_state EXCEPT ![th] = IdleThread]
    /\ UNCHANGED <<th_cache, th_answered>>
    /\ UNCHANGED notThreads

\* release_date.py:122-127: the result is stored under the key of the variant
StoresVariant(th) ==
    /\ th_state[th].pc = "store"
    /\ th_cache' = CachePut(th_cache, candidate_key(th), th_state[th].result)
    /\ th_state' = [th_state EXCEPT ![th] = AfterResult(th, th_state[th].result)]
    /\ UNCHANGED <<th_calls, th_answered>>
    /\ UNCHANGED notThreads

\* release_date.py:128-129: best_result is stored under the original key and returned
StoresBest(th) ==
    /\ th_state[th].pc = "final"
    /\ th_cache' = CachePut(th_cache, cache_key(th), th_state[th].best_result)
    /\ th_calls' = CallEnded(th, "returned", th_state[th].best_result)
    /\ th_state' = [th_state EXCEPT ![th] = IdleThread]
    /\ UNCHANGED th_answered
    /\ UNCHANGED notThreads

ThreadsInit == ThreadsStart /\ AggIdle /\ EnrichIdle /\ BdayIdle /\ UpcomingIdle /\ ExportIdle /\ FilterIdle /\ TwiceIdle /\ ParseIdle /\ NotifyIdle /\ SaveIdle /\ LookupIdle /\ PagingIdle

ThreadsNext ==
    \/ \E th \in Threads, album \in ThreadTitles : LookupEnters(th, album, ArtistWeezer)
    \/ \E th \in Threads : ReturnsCached(th)
    \/ \E th \in Threads : TestsVariant(th)
    \/ \E th \in Threads : ReadsVariant(th)
    \/ \E th \in Threads, payload \in ThreadPayloads : CatalogAnswers(th, payload)
    \/ \E th \in Threads : CatalogFails(th)
    \/ \E th \in Threads : StoresVariant(th)
    \/ \E th \in Threads : StoresBest(th)

SpecThreads == ThreadsInit /\ [][ThreadsNext]_vars

-----------------------------------------------------------------------------
(* Properties of lookup_release under the threads of the server *)

SameUpToCase(a, b) ==
    /\ StrLower(a.album) = StrLower(b.album)
    /\ StrLower(a.artist) = StrLower(b.artist)

\* C5: once a lookup of (title, artist) has returned, every later lookup of
\* the same title and artist up to letter case returns the same (id, date)
\* and queries nothing.
C5_RepeatedLookupIsCached ==
    \A j \in 1..Len(th_calls) : \A i \in th_calls[j].after :
        SameUpToCase(th_calls[i], th_calls[j])
           => /\ th_calls[j].queries = 0
              /\ th_calls[j].outcome # "raised"
              /\ th_calls[j].outcome = "returned"
                    => th_calls[j].returned = th_calls[i].returned

\* C6: each (variant.lower(), artist.lower()) key has at most one query that
\* completes without error, and the result of the query is stored under the
\* key, where it stays.
C6_AtMostOneQueryPerVariant ==
    \A key \in DOMAIN th_answered :
        /\ th_answered[key] <= 1
        /\ \/ key \in DOMAIN th_cache
           \/ \E th \in Threads : th_state[th].pc = "store" /\ candidate_key(th) = key

=============================================================================
